---- MODULE Spec2Model ----
(***************************************************************************)
(* CRYSTALpytools, electronics.py: the unit toggles of ElectronBand,       *)
(* ElectronDOS, ElectronBandDOS and ChargeDensity, and the band gap        *)
(* extraction ElectronBand.get_bandgap; base/plotbase.py: what            *)
(* plot_cry_bands, plot_cry_doss and plot_cry_es read from, and write to,  *)
(* the objects they plot, and the axes they set.                           *)
(*                                                                         *)
(* Numbers.  A float is kept exactly, as  m * 10^-DataDecimals * HE^e *    *)
(* BA^l  with HE the Hartree-to-eV factor and BA the Bohr-to-Angstrom      *)
(* factor: a record [m, e, l].  A conversion multiplies or divides by its  *)
(* factor, i.e. moves e or l by one; np.round evaluates the product with   *)
(* the digits of the factor.  A numpy array (and a Python scalar, shape    *)
(* <<>>) is [kind, shape, v] with v the elements in row-major order.       *)
(***************************************************************************)
EXTENDS Integers, Sequences, FiniteSets, TLC

VARIABLES band, dos, chg, call, pre, gapUnit, built, echg, conv, seen, plot

vars == <<band, dos, chg, call, pre, gapUnit, built, echg, conv, seen, plot>>

---------------------------------------------------------------------------
(* Bounds of the model *)

\* decimals carried by the input data (one more than np.round keeps)
DataDecimals == 7
\* bands and k-points of a band structure
NBand == 2
NKpt == 2
\* input energies, in units of 10^-DataDecimals: a large one and one that
\* rounds to zero
EBig == 3074
ETiny == 4

\* the ticks, and k points, of a plotted band object
NTick == 4

---------------------------------------------------------------------------
(* Arithmetic *)

Abs(i) == IF i < 0 THEN -i ELSE i

RECURSIVE Pow10(_)
Pow10(n) == IF n = 0 THEN 1 ELSE 10 * Pow10(n - 1)

Min(S) == CHOOSE x \in S : \A y \in S : x <= y

\* units.H_to_eV multiplies by 27.211386245988: the digits of the factor,
\* most significant first, and the number of them after the point
HartreeEvDigits == <<2, 7, 2, 1, 1, 3, 8, 6, 2, 4, 5, 9, 8, 8>>
HartreeEvFrac == 12

\* digit i of the factor, i = 0 the least significant
HEDigit(i) == HartreeEvDigits[Len(HartreeEvDigits) - i]

\* the integer formed by the digits of the factor from position p upwards
RECURSIVE HETop(_)
HETop(p) == IF p >= Len(HartreeEvDigits) THEN 0 ELSE HEDigit(p) + 10 * HETop(p + 1)

\* floor(j * (the low p digits of the factor) / 10^p), digit by digit
RECURSIVE HECarry(_, _)
HECarry(j, p) == IF p = 0 THEN 0 ELSE (j * HEDigit(p - 1) + HECarry(j, p - 1)) \div 10

\* floor(j * 27211386245988 / 10^p)
HEFloor(j, p) == j * HETop(p) + HECarry(j, p)

\* np.round keeps Decimals decimals (electronics.py, get_bandgap)
Decimals == 6

Shift == DataDecimals - Decimals

\* round half to even of m / g
RoundHalfEven(m, g) ==
    LET q == m \div g
        r == m % g
    IN  IF 2 * r < g THEN q
        ELSE IF 2 * r > g THEN q + 1
        ELSE IF q % 2 = 0 THEN q ELSE q + 1

\* round(m * HE / 10^Shift): 2x is never an odd integer for m # 0, so the
\* nearest integer is floor((floor(2x) + 1) / 2)
RoundTimesHE(m) == (HEFloor(2 * m, HartreeEvFrac + Shift) + 1) \div 2

\* round(m / (HE * 10^Shift)): the k with (2k-1) c < 2m < (2k+1) c for
\* c = HE * 10^Shift (neither product is an integer); m over the leading
\* digits of c is within w of it
RoundOverHE(m) ==
    LET q  == HartreeEvFrac - Shift
        k0 == m \div HETop(q)
        w  == Abs(m) \div 500000 + 2
    IN  CHOOSE k \in (k0 - w)..(k0 + w) :
            /\ 2 * m <= HEFloor(2 * k + 1, q)
            /\ HEFloor(2 * k - 1, q) < 2 * m

---------------------------------------------------------------------------
(* Floats *)

Float(m) == [m |-> m, e |-> 0, l |-> 0]

\* the sign of a float: both factors are positive
Sign(x) == IF x.m > 0 THEN 1 ELSE IF x.m < 0 THEN -1 ELSE 0

\* a < b for two elements of one array (an array is converted as a whole, so
\* its elements carry the same powers)
Less(a, b) == a.m < b.m

\* a - b for two floats with the same powers
Minus(a, b) == [a EXCEPT !.m = a.m - b.m]

\* as Round6, rounding a value towards minus infinity where numpy rounds
\* to the nearest
Round6_Floor(x) ==
    CASE x.e = 0 /\ x.l = 0  -> Float(Pow10(Shift) * (x.m \div Pow10(Shift)))
      [] x.e = 1 /\ x.l = 0  -> Float(Pow10(Shift) * RoundTimesHE(x.m))
      [] x.e = -1 /\ x.l = 0 -> Float(Pow10(Shift) * RoundOverHE(x.m))

\* np.round(x, 6) of an energy
Round6(x) ==
    CASE x.e = 0 /\ x.l = 0  -> Float(Pow10(Shift) * RoundHalfEven(x.m, Pow10(Shift)))
      [] x.e = 1 /\ x.l = 0  -> Float(Pow10(Shift) * RoundTimesHE(x.m))
      [] x.e = -1 /\ x.l = 0 -> Float(Pow10(Shift) * RoundOverHE(x.m))

---------------------------------------------------------------------------
(* Strings: a str is the sequence of its characters *)

UpperCase == <<"A", "B", "C", "D", "E", "F", "G", "H", "I", "J", "K", "L", "M",
               "N", "O", "P", "Q", "R", "S", "T", "U", "V", "W", "X", "Y", "Z">>
LowerCase == <<"a", "b", "c", "d", "e", "f", "g", "h", "i", "j", "k", "l", "m",
               "n", "o", "p", "q", "r", "s", "t", "u", "v", "w", "x", "y", "z">>

\* str.lower(): an upper-case letter becomes its lower-case letter, any
\* other character is kept
UpperIndex == [c \in {UpperCase[i] : i \in DOMAIN UpperCase} |->
                  CHOOSE i \in DOMAIN UpperCase : UpperCase[i] = c]
LowerChar(c) == IF c \in DOMAIN UpperIndex THEN LowerCase[UpperIndex[c]] ELSE c

Lower(s) == [i \in DOMAIN s |-> LowerChar(s[i])]

Str_eV == <<"e", "V">>
Str_ev == <<"e", "v">>
Str_EV == <<"E", "V">>
Str_au == <<"a", ".", "u", ".">>
Str_Angstrom == <<"A", "n", "g", "s", "t", "r", "o", "m">>
Str_angstrom == <<"a", "n", "g", "s", "t", "r", "o", "m">>
Str_kelvin == <<"k", "e", "l", "v", "i", "n">>
NoStr == <<>>

---------------------------------------------------------------------------
(* Arrays *)

\* a Python float
Scalar(x) == [kind |-> "array", shape |-> <<>>, v |-> <<x>>]

\* an array of the given shape with the elements v, row-major
Array(shape, v) == [kind |-> "array", shape |-> shape, v |-> v]

\* None, and an attribute the object does not have (hasattr is False)
None == [kind |-> "None", shape |-> <<>>, v |-> <<>>]
Absent == [kind |-> "absent", shape |-> <<>>, v |-> <<>>]

\* np.array(x, dtype=float): of None it is a 0-dimensional array holding nan
NaN == [m |-> 0, e |-> 0, l |-> 0, nan |-> TRUE]
np_array(x) == IF x.kind = "None" THEN Array(<<>>, <<NaN>>) ELSE x

\* np.zeros([2,]) and np.zeros([2, 2])
Zeros2 == Array(<<2>>, <<Float(0), Float(0)>>)
Zeros22 == Array(<<2, 2>>, <<Float(0), Float(0), Float(0), Float(0)>>)

\* a[n, k, s]; a negative n counts from the end of the first axis
At3(a, n, k, s) ==
    a.v[1 + ((IF n < 0 THEN n + a.shape[1] ELSE n) * a.shape[2] + k) * a.shape[3] + s]

\* a[n, :, s] as a function of k
Row(a, n, s) == [k \in 0..(a.shape[2] - 1) |-> At3(a, n, k, s)]

\* a[i] of a 1D array, i from 0
At1(a, i) == a.v[i + 1]

\* np.max, np.min of a row, and np.argmax, np.argmin: the first index
\* that attains it
\* as MaxOf, reading the first k point only
MaxOf_FirstK(row) == row[0]

MaxOf(row) == CHOOSE x \in {row[k] : k \in DOMAIN row} :
                  \A k \in DOMAIN row : ~Less(x, row[k])
MinOf(row) == CHOOSE x \in {row[k] : k \in DOMAIN row} :
                  \A k \in DOMAIN row : ~Less(row[k], x)
\* as ArgMin, the last index that attains the minimum
ArgMin_Last(row) ==
    CHOOSE k \in DOMAIN row :
        /\ row[k].m = MinOf(row).m
        /\ \A j \in DOMAIN row : row[j].m = MinOf(row).m => j <= k

ArgMax(row) == Min({k \in DOMAIN row : row[k].m = MaxOf(row).m})
ArgMin(row) == Min({k \in DOMAIN row : row[k].m = MinOf(row).m})

\* an operation applied to every element (numpy broadcasting)
Each(F(_), a) == [a EXCEPT !.v = [i \in DOMAIN a.v |-> F(a.v[i])]]

---------------------------------------------------------------------------
(* CRYSTALpytools.units *)

TimesHE(x) == [x EXCEPT !.e = @ + 1]
OverHE(x) == [x EXCEPT !.e = @ - 1]
TimesBA(x) == [x EXCEPT !.l = @ + 1]
OverBA(x) == [x EXCEPT !.l = @ - 1]

H_to_eV(a) == Each(TimesHE, a)
eV_to_H(a) == Each(OverHE, a)
au_to_angstrom(a) == Each(TimesBA, a)
angstrom_to_au(a) == Each(OverBA, a)

\* "if hasattr(self, p): setattr(self, p, conv(getattr(self, p)))"
IfHas(Conv(_), a) == IF a.kind = "absent" THEN a ELSE Conv(a)

\* "if np.all(x != None): x = conv(x)"
IfNotNone(Conv(_), a) == IF a.kind = "None" THEN a ELSE Conv(a)

---------------------------------------------------------------------------
(* ElectronBand *)

\* ElectronBand.__init__ (geometry None)
ElectronBand(spin, tick_pos, tick_label, efermi, bands, k_path, reciprocal_latt, tick_pos3d, k_path3d, unit) ==
    [spin |-> spin,
     n_tick |-> tick_pos.shape[1],
     tick_pos |-> tick_pos,
     tick_label |-> tick_label,
     tick_pos3d |-> np_array(tick_pos3d),
     k_path3d |-> np_array(k_path3d),
     efermi |-> efermi,
     bands |-> bands,
     k_path |-> k_path,
     reciprocal_latt |-> reciprocal_latt,
     unit |-> unit,
     tick_position |-> tick_pos,
     k_point_plot |-> k_path,
     gap |-> Absent, vbm |-> Absent, cbm |-> Absent, gap_pos |-> Absent]

\* the locals of get_bandgap when the loop starts: nvb and ncb are not bound;
\* self.gap, self.vbm, self.cbm, self.gap_pos have just been set to zeros
GapStart ==
    [bound |-> FALSE, nvb |-> 0, ncb |-> 0, raised |-> FALSE, idx |-> <<>>,
     gap |-> Zeros2, vbm |-> Zeros2, cbm |-> Zeros2, gap_pos |-> Zeros22]

\* as BandsAbove, with ">= 0" written for "> 0"
BandsAbove_NonNegative(b, s) ==
    {n \in 0..(b.bands.shape[1] - 1) : Sign(At3(b.bands, n, 0, s)) >= 0}

\* the inner loop: the band indices whose energy at the first k point is > 0;
\* the loop breaks at the first of them
BandsAbove(b, s) ==
    {n \in 0..(b.bands.shape[1] - 1) : Sign(At3(b.bands, n, 0, s)) > 0}

\* as GapOf, without the test for bands that cross 0
GapOf_NoMetal(vbm, cbm) == Minus(cbm, vbm)

\* "if vbm > 0. or cbm < 0.: gap = 0.  else: gap = cbm - vbm"
GapOf(vbm, cbm) ==
    IF Sign(vbm) > 0 \/ Sign(cbm) < 0 THEN Float(0) ELSE Minus(cbm, vbm)

\* one pass of the loop over ispin
GapChannel(b, s, loc) ==
    LET above == BandsAbove(b, s)
        bound == above # {} \/ loc.bound
        nvb   == IF above # {} THEN Min(above) - 1 ELSE loc.nvb
        ncb   == IF above # {} THEN Min(above) ELSE loc.ncb
    IN  IF ~bound
        THEN [loc EXCEPT !.raised = TRUE]
        ELSE LET vrow == Row(b.bands, nvb, s)
                 crow == Row(b.bands, ncb, s)
                 vbm  == Round6(MaxOf(vrow))
                 kvbm == At1(b.k_path, ArgMax(vrow))
                 cbm  == Round6(MinOf(crow))
                 kcbm == At1(b.k_path, ArgMin(crow))
             IN  [bound |-> TRUE, nvb |-> nvb, ncb |-> ncb, raised |-> FALSE,
                  idx |-> Append(loc.idx, [nvb |-> nvb, ncb |-> ncb]),
                  gap |-> [loc.gap EXCEPT !.v[s + 1] = GapOf(vbm, cbm)],
                  vbm |-> [loc.vbm EXCEPT !.v[s + 1] = vbm],
                  cbm |-> [loc.cbm EXCEPT !.v[s + 1] = cbm],
                  gap_pos |-> [loc.gap_pos EXCEPT !.v[2 * s + 1] = kvbm,
                                                  !.v[2 * s + 2] = kcbm]]

RECURSIVE GapLoop(_, _, _)
GapLoop(b, s, loc) ==
    IF s >= b.spin \/ loc.raised THEN loc
    ELSE GapLoop(b, s + 1, GapChannel(b, s, loc))

\* "return self.gap, self.vbm, self.cbm, self.gap_pos"
GapTuple(b) == <<b.gap, b.vbm, b.cbm, b.gap_pos>>

\* as get_bandgap, without the reduction "if self.spin == 1"
get_bandgap_NoScalars(b) ==
    LET loc == GapLoop(b, 0, GapStart)
        arr == [b EXCEPT !.gap = loc.gap, !.vbm = loc.vbm, !.cbm = loc.cbm,
                         !.gap_pos = loc.gap_pos]
    IN  IF loc.raised
        THEN [obj |-> arr, outcome |-> "UnboundLocalError", ret |-> "raise",
              idx |-> loc.idx, val |-> <<>>]
        ELSE [obj |-> arr, outcome |-> "ok", ret |-> "tuple", idx |-> loc.idx,
              val |-> GapTuple(arr)]

\* ElectronBand.get_bandgap: the object after the call, how the call ended,
\* the band indices used for each channel, and the tuple returned
get_bandgap(b) ==
    LET loc == GapLoop(b, 0, GapStart)
        arr == [b EXCEPT !.gap = loc.gap, !.vbm = loc.vbm, !.cbm = loc.cbm,
                         !.gap_pos = loc.gap_pos]
        sca == [b EXCEPT !.gap = Scalar(loc.gap.v[1]),
                         !.vbm = Scalar(loc.vbm.v[1]),
                         !.cbm = Scalar(loc.cbm.v[1]),
                         !.gap_pos = Array(<<2>>, <<loc.gap_pos.v[1],
                                                    loc.gap_pos.v[2]>>)]
    IN  IF loc.raised
        THEN [obj |-> arr, outcome |-> "UnboundLocalError", ret |-> "raise",
              idx |-> loc.idx, val |-> <<>>]
        ELSE IF b.spin = 1
        THEN [obj |-> sca, outcome |-> "ok", ret |-> "tuple", idx |-> loc.idx,
              val |-> GapTuple(sca)]
        ELSE [obj |-> arr, outcome |-> "ok", ret |-> "tuple", idx |-> loc.idx,
              val |-> GapTuple(arr)]

\* "[0]" of what get_bandgap returned, if it returned
FirstItem(r) ==
    IF r.outcome # "ok" THEN r ELSE [r EXCEPT !.ret = "item", !.val = <<r.val[1]>>]

\* the property ElectronBand.bandgap: "return self.get_bandgap()[0]"
bandgap(b) == FirstItem(get_bandgap(b))

\* as BandToEv, without the two loops over the optional properties
BandToEv_KeepsCache(b) ==
    [b EXCEPT !.unit = Str_eV,
              !.bands = H_to_eV(@),
              !.efermi = H_to_eV(@),
              !.tick_pos = au_to_angstrom(@),
              !.k_path = au_to_angstrom(@),
              !.reciprocal_latt = IfNotNone(au_to_angstrom, @)]

\* ElectronBand._set_unit, the branch "unit.lower() == 'ev'"
BandToEv(b) ==
    [b EXCEPT !.unit = Str_eV,
              !.bands = H_to_eV(@),
              !.efermi = H_to_eV(@),
              !.tick_pos = au_to_angstrom(@),
              !.k_path = au_to_angstrom(@),
              !.reciprocal_latt = IfNotNone(au_to_angstrom, @),
              !.gap = IfHas(H_to_eV, @),
              !.vbm = IfHas(H_to_eV, @),
              !.cbm = IfHas(H_to_eV, @),
              !.gap_pos = IfHas(au_to_angstrom, @)]

\* as BandToAu, deleting the optional properties where it should rescale them
BandToAu_DropsCache(b) ==
    [b EXCEPT !.unit = Str_au,
              !.bands = eV_to_H(@),
              !.efermi = eV_to_H(@),
              !.tick_pos = angstrom_to_au(@),
              !.k_path = angstrom_to_au(@),
              !.reciprocal_latt = IfNotNone(angstrom_to_au, @),
              !.gap = Absent, !.vbm = Absent, !.cbm = Absent, !.gap_pos = Absent]

\* ElectronBand._set_unit, the branch "unit.lower() == 'a.u.'"
BandToAu(b) ==
    [b EXCEPT !.unit = Str_au,
              !.bands = eV_to_H(@),
              !.efermi = eV_to_H(@),
              !.tick_pos = angstrom_to_au(@),
              !.k_path = angstrom_to_au(@),
              !.reciprocal_latt = IfNotNone(angstrom_to_au, @),
              !.gap = IfHas(eV_to_H, @),
              !.vbm = IfHas(eV_to_H, @),
              !.cbm = IfHas(eV_to_H, @),
              !.gap_pos = IfHas(angstrom_to_au, @)]

\* ElectronBand._set_unit, one assignment of a converting branch: the
\* attribute named is given its value in the unit t ('ev' or 'a.u.')
BandAssign(b, t, name) ==
    LET en(x) == IF t = Str_ev THEN H_to_eV(x) ELSE eV_to_H(x)
        ln(x) == IF t = Str_ev THEN au_to_angstrom(x) ELSE angstrom_to_au(x)
    IN  CASE name = "unit" -> [b EXCEPT !.unit = IF t = Str_ev THEN Str_eV ELSE Str_au]
          [] name = "bands" -> [b EXCEPT !.bands = en(@)]
          [] name = "efermi" -> [b EXCEPT !.efermi = en(@)]
          [] name = "tick_pos" -> [b EXCEPT !.tick_pos = ln(@)]
          [] name = "k_path" -> [b EXCEPT !.k_path = ln(@)]
          [] name = "reciprocal_latt" -> [b EXCEPT !.reciprocal_latt = IfNotNone(ln, @)]
          [] name = "gap" -> [b EXCEPT !.gap = IfHas(en, @)]
          [] name = "vbm" -> [b EXCEPT !.vbm = IfHas(en, @)]
          [] name = "cbm" -> [b EXCEPT !.cbm = IfHas(en, @)]
          [] name = "gap_pos" -> [b EXCEPT !.gap_pos = IfHas(ln, @)]

\* the order in which a converting branch assigns
BandAssigned == <<"unit", "bands", "efermi", "tick_pos", "k_path", "reciprocal_latt",
                  "gap", "vbm", "cbm", "gap_pos">>

\* as BandStmt, with the label assigned after the data
BandStmt_LabelLast(b, t, i) ==
    BandAssign(b, t, (Tail(BandAssigned) \o <<"unit">>)[i])

\* statement i of a converting branch
BandStmt(b, t, i) == BandAssign(b, t, BandAssigned[i])

\* as Band_set_unit, storing the label before the target is checked
Band_set_unit_LabelFirst(b, unit) ==
    IF Lower(unit) = Lower(b.unit)
    THEN [obj |-> b, outcome |-> "ok", ret |-> "self"]
    ELSE IF Lower(unit) = Str_ev
    THEN [obj |-> BandToEv(b), outcome |-> "ok", ret |-> "self"]
    ELSE IF Lower(unit) = Str_au
    THEN [obj |-> BandToAu(b), outcome |-> "ok", ret |-> "self"]
    ELSE [obj |-> [b EXCEPT !.unit = unit], outcome |-> "ValueError", ret |-> "raise"]

\* as Band_set_unit, comparing the target with the stored unit as written
Band_set_unit_CaseSensitive(b, unit) ==
    IF unit = b.unit
    THEN [obj |-> b, outcome |-> "ok", ret |-> "self"]
    ELSE IF Lower(unit) = Str_ev
    THEN [obj |-> BandToEv(b), outcome |-> "ok", ret |-> "self"]
    ELSE IF Lower(unit) = Str_au
    THEN [obj |-> BandToAu(b), outcome |-> "ok", ret |-> "self"]
    ELSE [obj |-> b, outcome |-> "ValueError", ret |-> "raise"]

\* ElectronBand._set_unit
Band_set_unit(b, unit) ==
    IF Lower(unit) = Lower(b.unit)
    THEN [obj |-> b, outcome |-> "ok", ret |-> "self"]
    ELSE IF Lower(unit) = Str_ev
    THEN [obj |-> BandToEv(b), outcome |-> "ok", ret |-> "self"]
    ELSE IF Lower(unit) = Str_au
    THEN [obj |-> BandToAu(b), outcome |-> "ok", ret |-> "self"]
    ELSE [obj |-> b, outcome |-> "ValueError", ret |-> "raise"]

\* a Python list of labels, and None passed for it
List(v) == [kind |-> "list", v |-> v]
NoList == [kind |-> "None", v |-> <<>>]

\* to_pmg, the labels after "if np.all(labels==None) ... else ...": the
\* labels of the object for None, the list filled up from them or cut to
\* n_tick otherwise
PmgLabels(b, labels) ==
    IF labels.kind = "None" THEN b.tick_label
    ELSE IF Len(labels.v) < b.n_tick
    THEN labels.v \o SubSeq(b.tick_label, Len(labels.v) + 1, b.n_tick)
    ELSE IF Len(labels.v) > b.n_tick
    THEN SubSeq(labels.v, 1, b.n_tick)
    ELSE labels.v

\* as to_pmg, without the loop that reads tick_pos3d[i] and with a
\* constructor that takes any k_path3d
to_pmg_NoLookup(b, labels) ==
    IF ~(b.tick_pos3d.kind # "absent")
    THEN [obj |-> b, outcome |-> "Exception", ret |-> "raise", labels |-> <<>>]
    ELSE [obj |-> Band_set_unit(b, Str_eV).obj, outcome |-> "ok",
          ret |-> "BandStructureSymmLine", labels |-> PmgLabels(b, labels)]

\* ElectronBand.to_pmg, with the keys of labels_dict.  __init__ always sets tick_pos3d, so the hasattr
\* test passes; the unit is set to eV-Angstrom; the loop over the ticks
\* indexes tick_pos3d, which raises IndexError on a 0-dimensional array;
\* pymatgen's BandStructureSymmLine iterates over k_path3d, which raises
\* TypeError on a 0-dimensional array.
to_pmg(b, labels) ==
    IF ~(b.tick_pos3d.kind # "absent")
    THEN [obj |-> b, outcome |-> "Exception", ret |-> "raise", labels |-> <<>>]
    ELSE LET b1 == Band_set_unit(b, Str_eV).obj
             used == PmgLabels(b1, labels)
         IN  IF b1.n_tick > 0 /\ (b1.tick_pos3d.shape = <<>>
                                   \/ b1.tick_pos3d.shape[1] < b1.n_tick)
             THEN [obj |-> b1, outcome |-> "IndexError", ret |-> "raise",
                   labels |-> used]
             ELSE IF b1.k_path3d.shape = <<>>
             THEN [obj |-> b1, outcome |-> "TypeError", ret |-> "raise",
                   labels |-> used]
             ELSE [obj |-> b1, outcome |-> "ok", ret |-> "BandStructureSymmLine",
                   labels |-> used]

---------------------------------------------------------------------------
(* ElectronDOS *)

\* ElectronDOS.__init__
ElectronDOS(spin, efermi, doss, energy, unit) ==
    [spin |-> spin, efermi |-> efermi, n_proj |-> doss.shape[1], doss |-> doss,
     n_energy |-> energy.shape[1], energy |-> energy, unit |-> unit]

\* as DosToEv, with doss converted the way the energies are
DosToEv_SameWay(d) ==
    [d EXCEPT !.unit = Str_eV,
              !.efermi = H_to_eV(@),
              !.energy = H_to_eV(@),
              !.doss = H_to_eV(@)]

\* ElectronDOS._set_unit, the branch "unit.lower() == 'ev'" (the lists of
\* optional properties are empty)
DosToEv(d) ==
    [d EXCEPT !.unit = Str_eV,
              !.efermi = H_to_eV(@),
              !.energy = H_to_eV(@),
              !.doss = eV_to_H(@)]

\* ElectronDOS._set_unit, the branch "unit.lower() == 'a.u.'"
DosToAu(d) ==
    [d EXCEPT !.unit = Str_au,
              !.efermi = eV_to_H(@),
              !.energy = eV_to_H(@),
              !.doss = H_to_eV(@)]

\* ElectronDOS._set_unit
Dos_set_unit(d, unit) ==
    IF Lower(unit) = Lower(d.unit)
    THEN [obj |-> d, outcome |-> "ok", ret |-> "self"]
    ELSE IF Lower(unit) = Str_ev
    THEN [obj |-> DosToEv(d), outcome |-> "ok", ret |-> "self"]
    ELSE IF Lower(unit) = Str_au
    THEN [obj |-> DosToAu(d), outcome |-> "ok", ret |-> "self"]
    ELSE [obj |-> d, outcome |-> "ValueError", ret |-> "raise"]

---------------------------------------------------------------------------
(* ChargeDensity *)

\* ChargeDensity.__init__ (struc None)
ChargeDensity(spin, gridv, chgmap, spinmap, unit) ==
    [spin |-> spin, gridv |-> gridv, chgmap |-> chgmap, spinmap |-> spinmap,
     unit |-> unit]

angstrom_to_au3(a) == angstrom_to_au(angstrom_to_au(angstrom_to_au(a)))
au_to_angstrom3(a) == au_to_angstrom(au_to_angstrom(au_to_angstrom(a)))

\* as ChgToAngstrom, multiplying by the factor where the code divides
ChgToAngstrom_Multiplies(c) ==
    [c EXCEPT !.unit = Str_Angstrom,
              !.chgmap = au_to_angstrom3(@),
              !.spinmap = IfNotNone(au_to_angstrom3, @)]

\* ChargeDensity._set_unit, the branch "unit.lower() == 'angstrom'"
ChgToAngstrom(c) ==
    [c EXCEPT !.unit = Str_Angstrom,
              !.chgmap = angstrom_to_au3(@),
              !.spinmap = IfNotNone(angstrom_to_au3, @)]

\* as ChgToAu, converting twice where the code converts three times
ChgToAu_Twice(c) ==
    [c EXCEPT !.unit = Str_au,
              !.chgmap = au_to_angstrom(au_to_angstrom(@)),
              !.spinmap = IfNotNone(au_to_angstrom3, @)]

\* ChargeDensity._set_unit, the branch "unit.lower() == 'a.u.'"
ChgToAu(c) ==
    [c EXCEPT !.unit = Str_au,
              !.chgmap = au_to_angstrom3(@),
              !.spinmap = IfNotNone(au_to_angstrom3, @)]

\* ChargeDensity._set_unit
Chg_set_unit(c, unit) ==
    IF Lower(unit) = Lower(c.unit)
    THEN [obj |-> c, outcome |-> "ok", ret |-> "self"]
    ELSE IF Lower(unit) = Str_angstrom
    THEN [obj |-> ChgToAngstrom(c), outcome |-> "ok", ret |-> "self"]
    ELSE IF Lower(unit) = Str_au
    THEN [obj |-> ChgToAu(c), outcome |-> "ok", ret |-> "self"]
    ELSE [obj |-> c, outcome |-> "ValueError", ret |-> "raise"]

\* the names numpy offers that this module uses: there is no numpy.norm
NumpyNames == {"array", "all", "zeros", "round", "max", "min", "argmax", "argmin"}

\* the names from_ECHG can read: its parameters and locals, and the globals
\* of the module
EchgNames == {"cls", "args", "CrgraParser", "spin", "a", "b", "c", "cosxy", "struc",
              "map1", "map2", "unit", "arg", "a1", "b1", "c1", "map11", "map21",
              "obj", "units", "np"}

\* the tolerance 1e-4 on the grid vectors, in the units of the data
GridTol == Pow10(DataDecimals - 4)

\* "norm(x - y) > 1e-4" for two vectors
NormAbove(x, y) ==
    LET d == [i \in DOMAIN x.v |-> x.v[i].m - y.v[i].m]
    IN  d[1] * d[1] + d[2] * d[2] + d[3] * d[3] > GridTol * GridTol

\* x - y, element by element
ArrayMinus(x, y) == [x EXCEPT !.v = [i \in DOMAIN x.v |-> Minus(x.v[i], y.v[i])]]

\* from_ECHG, the test made on an operand f against the reference r.  The
\* condition first looks up np.norm, which raises AttributeError; it would
\* go on to the grid vectors, and then to "map11.shape-map1.shape", the
\* difference of two tuples, which raises TypeError.
EchgTest(r, f) ==
    IF "norm" \notin NumpyNames THEN "AttributeError"
    ELSE IF NormAbove(r.a, f.a) \/ NormAbove(r.b, f.b) \/ NormAbove(r.c, f.c)
    THEN "Exception"
    ELSE "TypeError"

\* ChargeDensity.from_ECHG(*args), args the parsed files: the parsed data as
\* the call leaves them, the object returned if any, and how the call ended.
\* With one file the loop is skipped and the object is built; the next
\* statement reads the name self, which a classmethod does not have.
from_ECHG(files) ==
    IF Len(files) > 1
    THEN [maps |-> files, obj |-> <<>>, outcome |-> EchgTest(files[1], files[2])]
    ELSE IF "self" \notin EchgNames
    THEN [maps |-> files, obj |-> <<>>, outcome |-> "NameError"]
    ELSE LET r == files[1]
         IN  [maps |-> files,
              obj |-> <<ChargeDensity(r.spin,
                                      <<ArrayMinus(r.a, r.b), ArrayMinus(r.c, r.b)>>,
                                      r.map1, r.map2, r.unit)>>,
              outcome |-> "ok"]

---------------------------------------------------------------------------
(* ElectronBandDOS: the aggregate holds the band and the dos object *)

\* "def _set_unit(unit):" declares one parameter and no self
BandDos_set_unit_params == <<"unit">>

\* The arguments Python passes: a call on the instance, bd._set_unit(u),
\* passes the instance and u; a call on the class, ElectronBandDOS._set_unit(u),
\* passes u alone
CallArgs(how, unit) == IF how = "instance" THEN <<"bd", unit>> ELSE <<unit>>

\* as BandDos_set_unit, were the method declared with self and its second
\* statement the one that fails: the band member is converted, then the
\* call raises
BandDos_set_unit_Late(b, d, how, unit) ==
    LET rb == Band_set_unit(b, unit)
    IN  IF rb.outcome # "ok"
        THEN [band |-> b, dos |-> d, outcome |-> rb.outcome, ret |-> "raise"]
        ELSE [band |-> rb.obj, dos |-> d, outcome |-> "NameError", ret |-> "raise"]

\* ElectronBandDOS._set_unit: a call with the wrong number of arguments
\* raises TypeError; otherwise the body runs and its first statement reads
\* the name self, which is neither a parameter nor a global: NameError.
\* Neither way reaches a member's _set_unit.
BandDos_set_unit(b, d, how, unit) ==
    IF Len(CallArgs(how, unit)) # Len(BandDos_set_unit_params)
    THEN [band |-> b, dos |-> d, outcome |-> "TypeError", ret |-> "raise"]
    ELSE IF \A i \in DOMAIN BandDos_set_unit_params :
                BandDos_set_unit_params[i] # "self"
    THEN [band |-> b, dos |-> d, outcome |-> "NameError", ret |-> "raise"]
    ELSE LET rb == Band_set_unit(b, unit)
             rd == Dos_set_unit(d, unit)
         IN  IF rb.outcome # "ok"
             THEN [band |-> b, dos |-> d, outcome |-> rb.outcome, ret |-> "raise"]
             ELSE IF rd.outcome # "ok"
             THEN [band |-> rb.obj, dos |-> d, outcome |-> rd.outcome, ret |-> "raise"]
             ELSE [band |-> rb.obj, dos |-> rd.obj, outcome |-> "ok", ret |-> "None"]

---------------------------------------------------------------------------
(* base/plotbase.py: the density of states *)

Str_up == <<"u", "p">>
Str_down == <<"d", "o", "w", "n">>
Str_Up == <<"U", "p">>

\* x * n for an integer n
TimesInt(x, n) == [x EXCEPT !.m = @ * n]

\* "a[:, :, 1] = a[:, :, 1] * spin_idx"
BetaTimes(a, spin_idx) ==
    [a EXCEPT !.v = [i \in DOMAIN a.v |->
                        IF (i - 1) % a.shape[3] = 1 THEN TimesInt(a.v[i], spin_idx)
                        ELSE a.v[i]]]

\* the curve "sign * doss.doss[:, projection, s]"
DosCurve(d, projection, s, sign) ==
    [i \in 0..(d.doss.shape[1] - 1) |-> TimesInt(At3(d.doss, i, projection, s), sign)]

\* the curves drawn for every projection (prj None): the alpha channel, and
\* for spin 2 the beta channel times sign
DosCurves(d, sign) ==
    [projection \in 0..(d.n_proj - 1) |->
        [alpha |-> DosCurve(d, projection, 0, 1),
         beta |-> IF d.spin = 2 THEN DosCurve(d, projection, 1, sign) ELSE <<>>]]

\* "doss.doss[:, :, 1] = doss.doss[:, :, 1] * spin_idx" with spin_idx -1 for
\* 'up' and 1 for 'down', when the last axis of doss has length 2
EsStored(d, dos_beta) ==
    IF d.doss.shape[3] = 2
    THEN [d EXCEPT !.doss = BetaTimes(@, IF dos_beta = Str_up THEN -1 ELSE 1)]
    ELSE d

\* plot_cry_es with one colour and one label per projection and prj None:
\* dos_beta is checked, the beta channel stored in doss is multiplied by
\* spin_idx, then k_labels is checked against the ticks of the band object,
\* then the stored channels are drawn
plot_cry_es(b, d, k_labels, dos_beta) ==
    IF dos_beta \notin {Str_up, Str_down}
    THEN [dos |-> d, outcome |-> "ValueError", fig |-> <<>>]
    ELSE IF k_labels.kind = "list" /\ Len(k_labels.v) # b.tick_pos.shape[1]
    THEN [dos |-> EsStored(d, dos_beta), outcome |-> "ValueError", fig |-> <<>>]
    ELSE [dos |-> EsStored(d, dos_beta), outcome |-> "ok",
          fig |-> <<DosCurves(EsStored(d, dos_beta), 1)>>]

\* plot_cry_doss with overlap True, one colour and one label per projection
\* and prj None: beta is checked; 'up' draws the beta channel negated,
\* 'down' as stored; doss is only read
plot_cry_doss(d, beta) ==
    IF beta \notin {Str_up, Str_down}
    THEN [dos |-> d, outcome |-> "ValueError", fig |-> <<>>]
    ELSE [dos |-> d, outcome |-> "ok",
          fig |-> <<DosCurves(d, IF beta = Str_up THEN -1 ELSE 1)>>]

---------------------------------------------------------------------------
(* base/plotbase.py: band structures *)

\* Python values of the arguments: a float x, a str of the characters s, a
\* tuple; True and False are written "True" and "False" where an argument
\* is a bool or a str
PyFloat(m) == [type |-> "float", x |-> Float(m), s |-> <<>>]
PyStr(s) == [type |-> "str", x |-> Float(0), s |-> s]
Tuple(v) == [kind |-> "tuple", v |-> v]
IsBool(x) == x \in {"True", "False"}

\* isinstance(x, list), for x a band object, None, a list or a tuple
IsList(x) == "kind" \in DOMAIN x /\ x.kind = "list"

\* the band objects of the argument bands
BandList(bands) == IF IsList(bands) THEN bands.v ELSE <<bands>>

modes == <<"single", "multi", "compare", "surface">>

\* "if (isinstance(bands, list)) and (mode is modes[0]): mode = modes[1]"
ModeUsed(bands, mode) == IF IsList(bands) /\ mode = modes[1] THEN modes[2] ELSE mode

\* np.amin, np.amax over every element of an array, min and max of a list
MinF(S) == CHOOSE x \in S : \A y \in S : ~Less(y, x)
MaxF(S) == CHOOSE x \in S : \A y \in S : ~Less(x, y)
amin(a) == MinF({a.v[i] : i \in DOMAIN a.v})
amax(a) == MaxF({a.v[i] : i \in DOMAIN a.v})

\* the error check on k_labels: every band object has the n_tick of the
\* first, and k_labels has that many elements (the labels are strings)
KLabelsOk(bands, k_labels) ==
    \/ k_labels.kind = "None"
    \/ /\ k_labels.kind = "list"
       /\ \A i \in DOMAIN BandList(bands) :
              BandList(bands)[i].n_tick = BandList(bands)[1].n_tick
       /\ Len(k_labels.v) = BandList(bands)[1].n_tick

\* the error check on energy_range: None, or a list of at most two
\* elements, each an int or a float
EnergyRangeOk(energy_range) ==
    \/ energy_range.kind = "None"
    \/ /\ energy_range.kind = "list"
       /\ ~(Len(energy_range.v) > 2)
       /\ \A i \in DOMAIN energy_range.v : energy_range.v[i].type \in {"int", "float"}

\* the error check on k_range: None, or a list of at most two elements,
\* each a str
KRangeOk(k_range) ==
    \/ k_range.kind = "None"
    \/ /\ k_range.kind = "list"
       /\ ~(Len(k_range.v) > 2)
       /\ \A i \in DOMAIN k_range.v : k_range.v[i].type = "str"

\* the checks made before any mode is entered
ArgumentsOk(bands, k_labels, energy_range, k_range, mode) ==
    /\ \E i \in DOMAIN modes : modes[i] = mode
    /\ KLabelsOk(bands, k_labels)
    /\ EnergyRangeOk(energy_range)
    /\ KRangeOk(k_range)

\* the error check on sharex and sharey of the compare mode
ShareOk(sharex, sharey) ==
    IF IsBool(sharex) /\ IsBool(sharey) THEN TRUE
    ELSE /\ sharex \in {"row", "col"}
         /\ sharey \in {"row", "col"}

\* what a call has done when it raises or returns
Drawn(bands, outcome, figure, lim, subplots) ==
    [bands |-> bands, outcome |-> outcome, figure |-> figure, keys |-> <<>>,
     path_dict |-> <<>>, lim |-> lim, subplots |-> subplots]

\* __plot_single_cry_bands: the extrema returned
plot_single_cry_bands(bands) ==
    [ymin |-> amin(bands.bands), ymax |-> amax(bands.bands),
     xmin |-> amin(bands.k_path), xmax |-> amax(bands.k_path)]

\* __plot_multi_cry_bands: the extrema returned.  With not_scaled False the
\* x range is that of the first object, otherwise that of all of them.
plot_multi_cry_bands(bs, not_scaled) ==
    [ymin |-> MinF({amin(bs[i].bands) : i \in DOMAIN bs}),
     ymax |-> MaxF({amax(bs[i].bands) : i \in DOMAIN bs}),
     xmin |-> IF not_scaled = FALSE THEN amin(bs[1].k_path)
              ELSE MinF({amin(bs[i].k_path) : i \in DOMAIN bs}),
     xmax |-> IF not_scaled = FALSE THEN amax(bs[1].k_path)
              ELSE MaxF({amax(bs[i].k_path) : i \in DOMAIN bs})]

\* "hsp[len(hsp)-1] = xmax"
SetLast(a, x) == [a EXCEPT !.v = [@ EXCEPT ![Len(@)] = x]]

\* hsp is the array tick_pos of the first band object, which is also its
\* tick_position as long as no _set_unit call has replaced tick_pos
WithLastTick(b, x) ==
    [b EXCEPT !.tick_pos = SetLast(@, x), !.tick_position = SetLast(@, x)]
HspWritten(bands, x) ==
    IF IsList(bands) THEN [bands EXCEPT !.v = [@ EXCEPT ![1] = WithLastTick(@, x)]]
    ELSE WithLastTick(bands, x)

\* the pass count3 of the drawing loop of the compare mode, col outermost:
\* the subplot and the band object drawn in it
Cell(n_rows, count3) ==
    [row |-> count3 % n_rows, col |-> count3 \div n_rows, index |-> count3]

\* the y limits of the subplot (row, col) when energy_range is None; ymin
\* and ymax are the lists filled by the drawing loop
SubplotYLim(bs, n_rows, n_col, sharey, row, col) ==
    LET at == CASE sharey = "True" -> 0..(n_rows * n_col - 1)
                [] sharey = "False" -> {col * n_rows + row}
                [] sharey = "row" -> {i * n_rows + row : i \in 0..(n_col - 1)}
                [] sharey = "col" -> (col * n_rows)..(col * n_rows + n_rows - 1)
    IN  <<MinF({amin(bs[c + 1].bands) : c \in at}),
          MaxF({amax(bs[c + 1].bands) : c \in at})>>

\* the y limits set in every subplot
YLim(bs, energy_range, n_rows, n_col, sharey, row, col) ==
    IF energy_range.kind # "None"
    THEN <<MinF({energy_range.v[i].x : i \in DOMAIN energy_range.v}),
           MaxF({energy_range.v[i].x : i \in DOMAIN energy_range.v})>>
    ELSE SubplotYLim(bs, n_rows, n_col, sharey, row, col)

\* the subplots drawn by the passes 0 .. n - 1 of the drawing loop
Cells(n_rows, n) == [c \in 1..n |-> Cell(n_rows, c - 1)]

\* __plot_compare_cry_bands once n_rows and n_col are known.  plt.subplots
\* returns a 1D array of axes when one of n_rows, n_col is 1, so "ax[row,
\* col]" raises for a single column of several rows; "bands[count3]" raises
\* past the end of the list; min() raises for an empty energy_range.
plot_compare_grid(bands, energy_range, not_scaled, n_rows, n_col, sharey) ==
    IF n_rows # 1 /\ n_col = 1
    THEN Drawn(bands, "IndexError", TRUE, <<>>, <<>>)
    ELSE IF n_rows * n_col > Len(bands.v)
    THEN Drawn(bands, "IndexError", TRUE, <<>>, Cells(n_rows, Len(bands.v)))
    ELSE IF energy_range.kind # "None" /\ Len(energy_range.v) = 0
    THEN Drawn(bands, "ValueError", TRUE, <<>>, Cells(n_rows, n_rows * n_col))
    ELSE Drawn(bands, "ok", TRUE, plot_multi_cry_bands(bands.v, not_scaled),
               [c \in 1..(n_rows * n_col) |->
                   [row |-> Cell(n_rows, c - 1).row, col |-> Cell(n_rows, c - 1).col,
                    index |-> c - 1,
                    ylim |-> YLim(bands.v, energy_range, n_rows, n_col, sharey,
                                  Cell(n_rows, c - 1).row, Cell(n_rows, c - 1).col)]])

\* __plot_compare_cry_bands: the error check and definition of scheme, then
\* the subplots
plot_compare_cry_bands(bands, energy_range, not_scaled, scheme, sharey) ==
    IF scheme.kind = "None"
    THEN plot_compare_grid(bands, energy_range, not_scaled, 1, Len(bands.v), sharey)
    ELSE IF scheme.kind \notin {"tuple", "list"} \/ Len(scheme.v) > 2
    THEN Drawn(bands, "ValueError", FALSE, <<>>, <<>>)
    ELSE IF Len(scheme.v) < 2
    THEN Drawn(bands, "IndexError", FALSE, <<>>, <<>>)
    ELSE plot_compare_grid(bands, energy_range, not_scaled, scheme.v[1], scheme.v[2], sharey)

\* str(repeat_count): repeat_count is set to 1 before every test of the
\* inner loop
str_1 == <<"1">>

\* the inner loop "for p in range(0, len(high_sym_point2))" of the pass
\* count, from p on (indices from 1).  high_sym_point2 and high_sym_point are
\* one list, so q == r always.
RECURSIVE RenameOthers(_, _, _, _)
RenameOthers(high_sym_point2, i, count, p) ==
    IF p > Len(high_sym_point2) THEN high_sym_point2
    ELSE IF p # count /\ high_sym_point2[p] = i
    THEN RenameOthers([high_sym_point2 EXCEPT ![p] = i \o str_1], i, count, p + 1)
    ELSE RenameOthers(high_sym_point2, i, count, p + 1)

\* high_sym_point2.count(i)
CountOf(l, i) == Cardinality({p \in DOMAIN l : l[p] = i})

\* the loop "for i in high_sym_point2" from the pass count on; the list is
\* changed while it is iterated, so i is the element now at count
RECURSIVE Rename(_, _)
Rename(high_sym_point2, count) ==
    IF count > Len(high_sym_point2) THEN high_sym_point2
    ELSE IF CountOf(high_sym_point2, high_sym_point2[count]) # 1
    THEN Rename(RenameOthers(high_sym_point2, high_sym_point2[count], count, 1),
                count + 1)
    ELSE Rename(high_sym_point2, count + 1)

\* the keys of path_dict: nothing without k_labels
PathKeys(k_labels) == IF k_labels.kind = "None" THEN <<>> ELSE Rename(k_labels.v, 1)

\* dict(zip(high_sym_point2, hsp)): the last tick given a key keeps it
PathDict(keys, hsp) ==
    [k \in {keys[p] : p \in DOMAIN keys} |->
        hsp.v[CHOOSE p \in DOMAIN keys :
                  keys[p] = k /\ \A q \in DOMAIN keys : keys[q] = k => q <= p]]

\* the x limits read from k_range: "path_dict[k_range[0]]" and
\* "path_dict[k_range[1]]"
KRangeOutcome(k_range, path_dict) ==
    IF k_range.kind = "None" THEN "ok"
    ELSE IF Len(k_range.v) < 1 THEN "IndexError"
    ELSE IF k_range.v[1].s \notin DOMAIN path_dict THEN "KeyError"
    ELSE IF Len(k_range.v) < 2 THEN "IndexError"
    ELSE IF k_range.v[2].s \notin DOMAIN path_dict THEN "KeyError"
    ELSE "ok"

\* the y limits read from energy_range outside the compare mode:
\* "ymin = energy_range[0]; ymax = energy_range[1]"
EnergyRangeOutcome(mode, energy_range) ==
    IF mode # modes[3] /\ energy_range.kind # "None" /\ Len(energy_range.v) < 2
    THEN "IndexError" ELSE "ok"

\* plot_cry_bands from "hsp_label = []" to its return: d is what the mode
\* has drawn, hsp the tick positions it used
AxesSet(d, mode, k_labels, energy_range, k_range, hsp) ==
    [d EXCEPT
       !.keys = PathKeys(k_labels),
       !.path_dict = PathDict(PathKeys(k_labels), hsp),
       !.outcome =
           IF EnergyRangeOutcome(mode, energy_range) # "ok"
           THEN EnergyRangeOutcome(mode, energy_range)
           ELSE KRangeOutcome(k_range, PathDict(PathKeys(k_labels), hsp)),
       !.lim =
           IF EnergyRangeOutcome(mode, energy_range) = "ok" /\ mode # modes[3]
              /\ energy_range.kind # "None"
           THEN [@ EXCEPT !.ymin = energy_range.v[1].x, !.ymax = energy_range.v[2].x]
           ELSE @]

\* the 'single' and 'multi' modes after their figure is drawn: the last
\* tick position of the first band object is overwritten with xmax
SinglePlotted(bands, mode, k_labels, energy_range, k_range, lim) ==
    AxesSet(Drawn(HspWritten(bands, lim.xmax), "ok", TRUE, lim, <<>>),
            mode, k_labels, energy_range, k_range,
            BandList(HspWritten(bands, lim.xmax))[1].tick_pos)

\* the 'compare' mode after __plot_compare_cry_bands
ComparePlotted(d, mode, k_labels, energy_range, k_range) ==
    IF d.outcome # "ok" THEN d
    ELSE AxesSet(d, mode, k_labels, energy_range, k_range, BandList(d.bands)[1].tick_pos)

\* plot_cry_bands (title None, colours and line styles as by default; the
\* 'surface' mode leaves the interpreter)
plot_cry_bands(bands, k_labels, energy_range, not_scaled, mode, k_range, scheme, sharex, sharey) ==
    IF ~ArgumentsOk(bands, k_labels, energy_range, k_range, mode)
    THEN Drawn(bands, "ValueError", FALSE, <<>>, <<>>)
    ELSE IF ModeUsed(bands, mode) = modes[1]
    THEN SinglePlotted(bands, modes[1], k_labels, energy_range, k_range,
                       plot_single_cry_bands(bands))
    ELSE IF ModeUsed(bands, mode) = modes[2]
    THEN IF ~IsList(bands) THEN Drawn(bands, "ValueError", FALSE, <<>>, <<>>)
         ELSE SinglePlotted(bands, modes[2], k_labels, energy_range, k_range,
                            plot_multi_cry_bands(bands.v, not_scaled))
    ELSE IF ModeUsed(bands, mode) = modes[3]
    THEN IF ~IsList(bands) \/ ~ShareOk(sharex, sharey)
         THEN Drawn(bands, "ValueError", FALSE, <<>>, <<>>)
         ELSE ComparePlotted(plot_compare_cry_bands(bands, energy_range, not_scaled,
                                                    scheme, sharey),
                             modes[3], k_labels, energy_range, k_range)
    ELSE Drawn(bands, "SystemExit", FALSE, <<>>, <<>>)

---------------------------------------------------------------------------
(* Input data *)

\* the energies an input band takes
Vals == {-EBig, 0, ETiny, EBig}

\* A channel gives each band its energy at the first k point and its energy
\* at the other k points.  The two lowest bands take every pair of values,
\* the bands above them are empty at every k point.
ChannelsWide ==
    {[n \in 0..(NBand - 1) |-> IF n <= 1 THEN low[n + 1] ELSE <<EBig, EBig>>] :
        low \in (Vals \X Vals) \X (Vals \X Vals)}

\* filled bands below an empty top band; no empty band at all; a valence
\* band that rises to ETiny away from the first k point
Insulator == [n \in 0..(NBand - 1) |->
                 IF n = NBand - 1 THEN <<EBig, EBig>> ELSE <<-EBig, -EBig>>]
AllFilled == [n \in 0..(NBand - 1) |-> <<-EBig, -EBig>>]
Rising == [n \in 0..(NBand - 1) |->
              IF n = NBand - 1 THEN <<EBig, EBig>> ELSE <<-EBig, ETiny>>]

\* 1.0 in the units of the data
One == Pow10(DataDecimals)

\* filled bands at -1.0 and an empty top band at +2.0, at every k point
Flat == [n \in 0..(NBand - 1) |->
            IF n = NBand - 1 THEN <<2 * One, 2 * One>> ELSE <<-One, -One>>]

\* the nBand*nKpoint*nSpin array of the channels chans[1..spin]
BandsArray(chans) ==
    LET spin == Len(chans)
    IN  Array(<<NBand, NKpt, spin>>,
              [i \in 1..(NBand * NKpt * spin) |->
                  LET s == (i - 1) % spin
                      k == ((i - 1) \div spin) % NKpt
                      n == (i - 1) \div (spin * NKpt)
                  IN  Float(chans[s + 1][n][IF k = 0 THEN 1 ELSE 2])])

\* k points 0, 10, 20, ... along the path; ticks at its two ends
KPath == Array(<<NKpt>>, [i \in 1..NKpt |-> Float(10 * (i - 1))])
TickPos == Array(<<2>>, <<Float(0), Float(10 * (NKpt - 1))>>)

RecLatt == Array(<<3, 3>>, <<Float(7), Float(0), Float(0),
                            Float(0), Float(7), Float(0),
                            Float(0), Float(0), Float(7)>>)

TickLabel == <<"G", "X">>

\* fractional coordinates of the two ticks and of the k points
TickPos3D == Array(<<2, 3>>, <<Float(0), Float(0), Float(0),
                              Float(One \div 2), Float(0), Float(0)>>)
KPath3D == Array(<<NKpt, 3>>,
                 [i \in 1..(3 * NKpt) |->
                     IF i % 3 = 1
                     THEN Float((((i - 1) \div 3) * (One \div 2)) \div (NKpt - 1))
                     ELSE Float(0)])

\* a band object read from a band file alone: no 3D coordinates
BandObject(chans, latt, unit) ==
    ElectronBand(Len(chans), TickPos, TickLabel, Scalar(Float(-2 * EBig)),
                 BandsArray(chans), KPath, latt, None, None, unit)

\* a band object read with the properties output file
BandObject3D(chans, latt, unit) ==
    ElectronBand(Len(chans), TickPos, TickLabel, Scalar(Float(-2 * EBig)),
                 BandsArray(chans), KPath, latt, TickPos3D, KPath3D, unit)

\* one projection, two energies, closed shell
DosObject(unit) ==
    ElectronDOS(1, Scalar(Float(-2 * EBig)),
                Array(<<1, 2, 1>>, <<Float(5), Float(9)>>),
                Array(<<2>>, <<Float(-EBig), Float(EBig)>>), unit)

\* two projections, two energies, open shell; no value is negative
DosObject2(unit) ==
    ElectronDOS(2, Scalar(Float(-2 * EBig)),
                Array(<<2, 2, 2>>, <<Float(5), Float(9), Float(0), Float(4),
                                    Float(7), Float(3), Float(2), Float(6)>>),
                Array(<<2>>, <<Float(-EBig), Float(EBig)>>), unit)

\* a 1*2 map, with and without a spin map
ChgObject(spin, unit) ==
    ChargeDensity(spin,
                  Array(<<2, 3>>, <<Float(1), Float(0), Float(0),
                                    Float(0), Float(1), Float(0)>>),
                  Array(<<1, 2>>, <<Float(3), Float(8)>>),
                  IF spin = 2 THEN Array(<<1, 2>>, <<Float(1), Float(-2)>>) ELSE None,
                  unit)

\* a closed-shell band object built in eV-Angstrom for plotting: NTick k
\* points step apart, each of them a tick; the top band at hi, the others
\* at lo
PlotPath(step) == Array(<<NTick>>, [i \in 1..NTick |-> Float(step * (i - 1))])
PlotBands(lo, hi) ==
    Array(<<NBand, NTick, 1>>,
          [i \in 1..(NBand * NTick) |->
              IF (i - 1) \div NTick = NBand - 1 THEN Float(hi) ELSE Float(lo)])
PlotBandObject(step, lo, hi) ==
    ElectronBand(1, PlotPath(step), [i \in 1..NTick |-> "G"], Scalar(Float(-2 * EBig)),
                 PlotBands(lo, hi), PlotPath(step), None, None, None, Str_eV)

\* the object plotted first, one with a longer path, one with a wider
\* range of energies
FirstBand == PlotBandObject(10, -EBig, 2 * EBig)
LongBand == PlotBandObject(20, -EBig, EBig)
TallBand == PlotBandObject(10, -2 * EBig, 3 * EBig)

\* what CrgraParser.mapn reads from a fort.25 file: the three corners of
\* the map, with a along x at the distance da and c along y, and the two
\* maps of the given shape with the value v
EchgFile(da, shape, v) ==
    [spin |-> 2,
     a |-> Array(<<3>>, <<Float(da), Float(0), Float(0)>>),
     b |-> Array(<<3>>, <<Float(0), Float(0), Float(0)>>),
     c |-> Array(<<3>>, <<Float(0), Float(One), Float(0)>>),
     map1 |-> Array(shape, <<Float(v), Float(2 * v)>>),
     map2 |-> Array(shape, <<Float(v), Float(-v)>>),
     unit |-> Str_Angstrom]

\* a reference, a file on the same grid, one whose corner a is 2e-4 away,
\* and one on the same grid with a map of another shape
EchgFiles == {EchgFile(One, <<1, 2>>, 8), EchgFile(One, <<1, 2>>, 3),
              EchgFile(One + 2 * GridTol, <<1, 2>>, 3), EchgFile(One, <<2, 1>>, 3)}

\* the files given to one call
MaxFiles == 3
EchgArgs == UNION {[1..n -> EchgFiles] : n \in 1..MaxFiles}

---------------------------------------------------------------------------
(* The calls *)

\* the last from_ECHG call: the files as parsed, the parsed data as the call
\* left them, the object returned
NoEchg == [args |-> <<>>, maps |-> <<>>, obj |-> <<>>]

\* no _set_unit call is in progress, and nothing has been read
Idle == [pc |-> 0, target |-> NoStr, start |-> <<>>]
NoSeen == [pc |-> 0, target |-> NoStr, start |-> <<>>, obj |-> <<>>]

\* the last plotting call: its arguments, the objects as the call left them,
\* what it drew
NoPlot == [args |-> <<>>, objs |-> <<>>, fig |-> <<>>]

NoCall == [obj |-> "none", op |-> "none", arg |-> NoStr, how |-> "none",
           outcome |-> "none", ret |-> "none", idx |-> <<>>, val |-> <<>>]

Objects == [band |-> band, dos |-> dos, chg |-> chg]

\* band._set_unit(u)
BandSetUnit(u) ==
    LET r == Band_set_unit(band, u)
    IN  /\ band' = r.obj
        /\ call' = [obj |-> "band", op |-> "_set_unit", arg |-> u, how |-> "instance",
                    outcome |-> r.outcome, ret |-> r.ret, idx |-> <<>>, val |-> <<>>]
        /\ pre' = Objects
        /\ UNCHANGED <<dos, chg, gapUnit, built, echg, conv, seen, plot>>

\* band.get_bandgap()
BandGetBandgap ==
    LET r == get_bandgap(band)
    IN  /\ band' = r.obj
        /\ call' = [obj |-> "band", op |-> "get_bandgap", arg |-> NoStr,
                    how |-> "instance", outcome |-> r.outcome, ret |-> r.ret,
                    idx |-> r.idx, val |-> r.val]
        /\ pre' = Objects
        /\ gapUnit' = Lower(band.unit)
        /\ UNCHANGED <<dos, chg, built, echg, conv, seen, plot>>

\* band.bandgap
BandBandgap ==
    LET r == bandgap(band)
    IN  /\ band' = r.obj
        /\ call' = [obj |-> "band", op |-> "bandgap", arg |-> NoStr,
                    how |-> "instance", outcome |-> r.outcome, ret |-> r.ret,
                    idx |-> r.idx, val |-> r.val]
        /\ pre' = Objects
        /\ gapUnit' = Lower(band.unit)
        /\ UNCHANGED <<dos, chg, built, echg, conv, seen, plot>>

\* band.to_pmg(labels)
BandToPmg(labels) ==
    LET r == to_pmg(band, labels)
    IN  /\ band' = r.obj
        /\ call' = [obj |-> "band", op |-> "to_pmg", arg |-> NoStr,
                    how |-> "instance", outcome |-> r.outcome, ret |-> r.ret,
                    idx |-> <<>>, val |-> <<List(r.labels)>>]
        /\ pre' = Objects
        /\ UNCHANGED <<dos, chg, gapUnit, built, echg, conv, seen, plot>>

\* dos._set_unit(u)
DosSetUnit(u) ==
    LET r == Dos_set_unit(dos, u)
    IN  /\ dos' = r.obj
        /\ call' = [obj |-> "dos", op |-> "_set_unit", arg |-> u, how |-> "instance",
                    outcome |-> r.outcome, ret |-> r.ret, idx |-> <<>>, val |-> <<>>]
        /\ pre' = Objects
        /\ UNCHANGED <<band, chg, gapUnit, built, echg, conv, seen, plot>>

\* chg._set_unit(u)
ChgSetUnit(u) ==
    LET r == Chg_set_unit(chg, u)
    IN  /\ chg' = r.obj
        /\ call' = [obj |-> "chg", op |-> "_set_unit", arg |-> u, how |-> "instance",
                    outcome |-> r.outcome, ret |-> r.ret, idx |-> <<>>, val |-> <<>>]
        /\ pre' = Objects
        /\ UNCHANGED <<band, dos, gapUnit, built, echg, conv, seen, plot>>

\* ChargeDensity.from_ECHG(*files)
FromECHG(files) ==
    LET r == from_ECHG(files)
    IN  /\ echg' = [args |-> files, maps |-> r.maps, obj |-> r.obj]
        /\ call' = [obj |-> "ChargeDensity", op |-> "from_ECHG", arg |-> NoStr,
                    how |-> "class", outcome |-> r.outcome,
                    ret |-> IF r.outcome = "ok" THEN "obj" ELSE "raise",
                    idx |-> <<>>, val |-> <<>>]
        /\ pre' = Objects
        /\ UNCHANGED <<band, dos, chg, gapUnit, built, conv, seen, plot>>

\* band._set_unit(u) run statement by statement beside a reader.  The call
\* starts: it returns at once for the unit the object has, raises for an
\* unknown one, and otherwise enters the branch of its target.
SetUnitEnter(u) ==
    /\ conv.pc = 0
    /\ pre' = Objects
    /\ IF Lower(u) = Lower(band.unit) \/ Lower(u) \notin {Str_ev, Str_au}
       THEN /\ conv' = conv
            /\ call' = [obj |-> "band", op |-> "_set_unit", arg |-> u, how |-> "steps",
                        outcome |-> Band_set_unit(band, u).outcome,
                        ret |-> Band_set_unit(band, u).ret, idx |-> <<>>, val |-> <<>>]
       ELSE /\ conv' = [pc |-> 1, target |-> Lower(u), start |-> <<band>>]
            /\ call' = [obj |-> "band", op |-> "_set_unit", arg |-> u, how |-> "steps",
                        outcome |-> "running", ret |-> "none", idx |-> <<>>,
                        val |-> <<>>]
    /\ UNCHANGED <<band, dos, chg, gapUnit, built, echg, seen, plot>>

\* the next assignment of the branch
SetUnitStep ==
    /\ conv.pc \in 1..Len(BandAssigned)
    /\ band' = BandStmt(band, conv.target, conv.pc)
    /\ conv' = [conv EXCEPT !.pc = @ + 1]
    /\ UNCHANGED <<dos, chg, call, pre, gapUnit, built, echg, seen, plot>>

\* "return self"
SetUnitReturn ==
    /\ conv.pc = Len(BandAssigned) + 1
    /\ conv' = Idle
    /\ call' = [call EXCEPT !.outcome = "ok", !.ret = "self"]
    /\ UNCHANGED <<band, dos, chg, pre, gapUnit, built, echg, seen, plot>>

\* another thread reads the attributes of the band object, once
Read ==
    /\ seen = NoSeen
    /\ seen' = [pc |-> conv.pc, target |-> conv.target, start |-> conv.start,
                obj |-> <<band>>]
    /\ UNCHANGED <<band, dos, chg, call, pre, gapUnit, built, echg, conv, plot>>

\* ElectronBandDOS(band, dos)._set_unit(u), called on the instance or on
\* the class
BandDosSetUnit(how, u) ==
    LET r == BandDos_set_unit(band, dos, how, u)
    IN  /\ band' = r.band
        /\ dos' = r.dos
        /\ call' = [obj |-> "banddos", op |-> "_set_unit", arg |-> u, how |-> how,
                    outcome |-> r.outcome, ret |-> r.ret, idx |-> <<>>, val |-> <<>>]
        /\ pre' = Objects
        /\ UNCHANGED <<chg, gapUnit, built, echg, conv, seen, plot>>

\* plot_cry_es(band, dos, k_labels, ..., dos_beta)
PlotCryEs(k_labels, dos_beta) ==
    /\ dos' = plot_cry_es(band, dos, k_labels, dos_beta).dos
    /\ plot' = [args |-> <<k_labels, dos_beta>>,
                objs |-> <<plot_cry_es(band, dos, k_labels, dos_beta).dos>>,
                fig |-> plot_cry_es(band, dos, k_labels, dos_beta).fig]
    /\ call' = [obj |-> "dos", op |-> "plot_cry_es", arg |-> dos_beta,
                how |-> "function",
                outcome |-> plot_cry_es(band, dos, k_labels, dos_beta).outcome,
                ret |-> IF plot_cry_es(band, dos, k_labels, dos_beta).outcome = "ok"
                        THEN "fig, ax" ELSE "raise",
                idx |-> <<>>, val |-> <<>>]
    /\ pre' = Objects
    /\ UNCHANGED <<band, chg, gapUnit, built, echg, conv, seen>>

\* plot_cry_doss(dos, ..., beta, ...)
PlotCryDoss(beta) ==
    /\ dos' = plot_cry_doss(dos, beta).dos
    /\ plot' = [args |-> <<beta>>, objs |-> <<plot_cry_doss(dos, beta).dos>>,
                fig |-> plot_cry_doss(dos, beta).fig]
    /\ call' = [obj |-> "dos", op |-> "plot_cry_doss", arg |-> beta,
                how |-> "function", outcome |-> plot_cry_doss(dos, beta).outcome,
                ret |-> IF plot_cry_doss(dos, beta).outcome = "ok"
                        THEN "fig, ax" ELSE "raise",
                idx |-> <<>>, val |-> <<>>]
    /\ pre' = Objects
    /\ UNCHANGED <<band, chg, gapUnit, built, echg, conv, seen>>

\* the arguments of a plot_cry_bands call: bands is the band object, or the
\* list of it and the others
BandsArg(a) == IF a.aslist THEN List(<<band>> \o a.others) ELSE band
ArgsOf(a) ==
    [bands |-> BandsArg(a), k_labels |-> a.k_labels, energy_range |-> a.energy_range,
     not_scaled |-> a.not_scaled, mode |-> a.mode, k_range |-> a.k_range,
     scheme |-> a.scheme, sharex |-> a.sharex, sharey |-> a.sharey]

\* the call has raised or returned, r is what it did
PlotCryBandsDone(args, r) ==
    /\ band' = BandList(r.bands)[1]
    /\ plot' = [args |-> args, objs |-> BandList(r.bands),
                fig |-> [r EXCEPT !.bands = <<>>]]
    /\ call' = [obj |-> "band", op |-> "plot_cry_bands", arg |-> NoStr,
                how |-> "function", outcome |-> r.outcome,
                ret |-> IF r.outcome = "ok" THEN "fig, ax" ELSE "raise",
                idx |-> <<>>, val |-> <<>>]
    /\ pre' = Objects
    /\ UNCHANGED <<dos, chg, gapUnit, built, echg, conv, seen>>

\* plot_cry_bands(bands, k_labels, energy_range, ..., scheme, sharex, sharey, ...)
PlotCryBands(a) ==
    PlotCryBandsDone(ArgsOf(a),
                     plot_cry_bands(BandsArg(a), a.k_labels, a.energy_range,
                                    a.not_scaled, a.mode, a.k_range, a.scheme,
                                    a.sharex, a.sharey))

---------------------------------------------------------------------------
(* The unit toggles of the four classes, with get_bandgap *)

\* the targets tried on a band or dos object, on a charge density, and on
\* the aggregate
EnergyTargets == {Str_eV, Str_ev, Str_au, Str_kelvin}
DensityTargets == {Str_Angstrom, Str_angstrom, Str_au, Str_kelvin}
AggregateTargets == {Str_eV, Str_au, Str_kelvin}

BandInputs == {<<Rising>>, <<AllFilled>>, <<Insulator, Rising>>}

Init ==
    /\ \E chans \in BandInputs, latt \in {None, RecLatt}, unit \in {Str_EV, Str_au} :
           band = BandObject(chans, latt, unit)
    /\ \E unit \in {Str_eV, Str_au} : dos = DosObject(unit)
    /\ \E c \in {<<1, Str_Angstrom>>, <<2, Str_au>>} : chg = ChgObject(c[1], c[2])
    /\ call = NoCall
    /\ pre = Objects
    /\ gapUnit = NoStr
    /\ built = Objects
    /\ echg = NoEchg
    /\ conv = Idle
    /\ seen = NoSeen
    /\ plot = NoPlot

Next ==
    \/ \E u \in EnergyTargets : BandSetUnit(u)
    \/ BandGetBandgap
    \/ \E u \in EnergyTargets : DosSetUnit(u)
    \/ \E u \in DensityTargets : ChgSetUnit(u)
    \/ \E how \in {"instance", "class"}, u \in AggregateTargets : BandDosSetUnit(how, u)

Spec == Init /\ [][Next]_vars

---------------------------------------------------------------------------
(* get_bandgap over every input of the bounds, in both units *)

\* spin 2: one channel ranges over every input, the other over two
GapInputs ==
    {<<c>> : c \in ChannelsWide}
    \cup {<<c, d>> : c \in ChannelsWide, d \in {Insulator, AllFilled}}
    \cup {<<d, c>> : c \in ChannelsWide, d \in {Insulator, AllFilled}}

\* the flat bands, built in eV-Angstrom
FlatInputs == {<<Flat>>, <<Flat, Insulator>>}

InitGap ==
    /\ \/ \E chans \in GapInputs, unit \in {Str_eV, Str_au} :
              band = BandObject(chans, None, unit)
       \/ \E chans \in FlatInputs : band = BandObject(chans, None, Str_eV)
    /\ dos = DosObject(Str_eV)
    /\ chg = ChgObject(1, Str_Angstrom)
    /\ call = NoCall
    /\ pre = Objects
    /\ gapUnit = NoStr
    /\ built = Objects
    /\ echg = NoEchg
    /\ conv = Idle
    /\ seen = NoSeen
    /\ plot = NoPlot

NextGap ==
    \/ BandGetBandgap
    \/ \E u \in {Str_eV, Str_au} : BandSetUnit(u)

SpecGap == InitGap /\ [][NextGap]_vars

---------------------------------------------------------------------------
(* A band object with and without 3D coordinates: get_bandgap, the property *)
(* bandgap, to_pmg and the unit toggle                                      *)

\* the label lists passed to to_pmg: none, one short, one of n_tick labels,
\* one long
PmgLabelInputs == {NoList, List(<<"A">>), List(<<"A", "B">>), List(<<"A", "B", "C">>)}

\* objects with 3D coordinates also have the reciprocal lattice
InitBand ==
    /\ \/ \E chans \in BandInputs, unit \in {Str_eV, Str_au} :
              \/ \E latt \in {None, RecLatt} : band = BandObject(chans, latt, unit)
              \/ band = BandObject3D(chans, RecLatt, unit)
       \/ \E chans \in FlatInputs :
              \/ band = BandObject(chans, None, Str_eV)
              \/ band = BandObject3D(chans, RecLatt, Str_eV)
    /\ dos = DosObject(Str_eV)
    /\ chg = ChgObject(1, Str_Angstrom)
    /\ call = NoCall
    /\ pre = Objects
    /\ gapUnit = NoStr
    /\ built = Objects
    /\ echg = NoEchg
    /\ conv = Idle
    /\ seen = NoSeen
    /\ plot = NoPlot

NextBand ==
    \/ BandGetBandgap
    \/ BandBandgap
    \/ \E labels \in PmgLabelInputs : BandToPmg(labels)
    \/ \E u \in {Str_eV, Str_au, Str_kelvin} : BandSetUnit(u)

SpecBand == InitBand /\ [][NextBand]_vars

---------------------------------------------------------------------------
(* Charge densities: from_ECHG and the unit toggle *)

InitChg ==
    /\ band = BandObject(<<Insulator>>, None, Str_eV)
    /\ dos = DosObject(Str_eV)
    /\ \E c \in {<<1, Str_Angstrom>>, <<2, Str_au>>} : chg = ChgObject(c[1], c[2])
    /\ call = NoCall
    /\ pre = Objects
    /\ gapUnit = NoStr
    /\ built = Objects
    /\ echg = NoEchg
    /\ conv = Idle
    /\ seen = NoSeen
    /\ plot = NoPlot

NextChg ==
    \/ \E files \in EchgArgs : FromECHG(files)
    \/ \E u \in DensityTargets : ChgSetUnit(u)

SpecChg == InitChg /\ [][NextChg]_vars

---------------------------------------------------------------------------
(* A unit toggle of a band object beside a reader of the same object *)

\* the object is as built, or get_bandgap has been called on it
InitSteps ==
    /\ \E chans \in {<<Rising>>, <<Insulator, Rising>>}, latt \in {None, RecLatt},
          unit \in {Str_EV, Str_au} :
           \/ band = BandObject(chans, latt, unit)
           \/ band = get_bandgap(BandObject(chans, latt, unit)).obj
    /\ dos = DosObject(Str_eV)
    /\ chg = ChgObject(1, Str_Angstrom)
    /\ call = NoCall
    /\ pre = Objects
    /\ gapUnit = NoStr
    /\ built = Objects
    /\ echg = NoEchg
    /\ conv = Idle
    /\ seen = NoSeen
    /\ plot = NoPlot

NextSteps ==
    \/ \E u \in EnergyTargets : SetUnitEnter(u)
    \/ SetUnitStep
    \/ SetUnitReturn
    \/ Read

SpecSteps == InitSteps /\ [][NextSteps]_vars

---------------------------------------------------------------------------
(* A dos object plotted and converted *)

BetaInputs == {Str_up, Str_down, Str_Up}

\* no labels, one label per tick, one label short
EsLabelInputs == {NoList, List(<<"G", "X">>), List(<<"G">>)}

InitDosPlot ==
    /\ band = BandObject(<<Insulator>>, None, Str_eV)
    /\ \E unit \in {Str_eV, Str_au} : dos \in {DosObject(unit), DosObject2(unit)}
    /\ chg = ChgObject(1, Str_Angstrom)
    /\ call = NoCall
    /\ pre = Objects
    /\ gapUnit = NoStr
    /\ built = Objects
    /\ echg = NoEchg
    /\ conv = Idle
    /\ seen = NoSeen
    /\ plot = NoPlot

NextDosPlot ==
    \/ \E u \in {Str_eV, Str_au, Str_kelvin} : DosSetUnit(u)
    \/ \E k_labels \in EsLabelInputs, dos_beta \in BetaInputs : PlotCryEs(k_labels, dos_beta)
    \/ \E beta \in BetaInputs : PlotCryDoss(beta)

SpecDosPlot == InitDosPlot /\ [][NextDosPlot]_vars

---------------------------------------------------------------------------
(* Band structures plotted *)

Str_G == <<"G">>
Str_G1 == <<"G", "1">>
Str_G11 == <<"G", "1", "1">>
Str_X == <<"X">>
Str_M == <<"M">>

\* a path that returns to its first point
ClosedPath == [i \in 1..NTick |-> IF i \in {1, NTick} THEN Str_G
                                  ELSE IF i = 2 THEN Str_X ELSE Str_M]

\* every list of NTick labels among G, G1 and G11, the closed path, no
\* labels, one label
LabelInputs ==
    {List(l) : l \in [1..NTick -> {Str_G, Str_G1, Str_G11}]}
    \cup {List(ClosedPath), NoList, List(<<Str_G>>)}

EnergyRangeInputs ==
    {NoList, List(<<>>), List(<<PyFloat(One)>>), List(<<PyFloat(-One), PyFloat(One)>>),
     List(<<PyFloat(-One), PyFloat(0), PyFloat(One)>>),
     List(<<PyStr(Str_eV), PyFloat(One)>>), Tuple(<<PyFloat(-One), PyFloat(One)>>)}

KRangeInputs ==
    {NoList, List(<<>>), List(<<PyStr(Str_G)>>), List(<<PyStr(Str_G), PyStr(Str_X)>>),
     List(<<PyStr(Str_G), PyStr(Str_X), PyStr(Str_M)>>),
     List(<<PyStr(Str_G), PyStr(Str_G11)>>)}

\* the band objects listed after the first; the last has two ticks
OtherBands == {<<>>, <<LongBand>>, <<LongBand, TallBand>>,
               <<BandObject(<<Insulator>>, None, Str_eV)>>}

SchemeInputs ==
    {NoList, Tuple(<<1, 1>>), Tuple(<<1, 2>>), Tuple(<<2, 1>>), Tuple(<<1, 3>>),
     Tuple(<<2, 2>>), List(<<3, 1>>), Tuple(<<2>>), Tuple(<<1, 2, 3>>)}

\* sharex and sharey
ShareInputs == {<<"True", "True">>, <<"True", "False">>, <<"row", "row">>,
                <<"col", "col">>, <<"True", "row">>, <<"row", "False">>}

ModeInputs == {"single", "multi", "compare", "surface", "overlay"}

PlotDefaults ==
    [aslist |-> FALSE, others |-> <<>>, k_labels |-> NoList, energy_range |-> NoList,
     not_scaled |-> FALSE, mode |-> "single", k_range |-> NoList, scheme |-> NoList,
     sharex |-> "True", sharey |-> "False"]

\* the calls made: the labels vary, then the ranges, then the compare
\* mode's list, scheme and sharing, then the mode and the scaling
PlotArgs ==
    {[PlotDefaults EXCEPT !.k_labels = k] : k \in LabelInputs}
    \cup {[PlotDefaults EXCEPT !.k_labels = List(ClosedPath), !.energy_range = e,
                               !.k_range = k, !.mode = m, !.aslist = (m = "compare")] :
             e \in EnergyRangeInputs, k \in KRangeInputs, m \in {"single", "compare"}}
    \cup {[PlotDefaults EXCEPT !.aslist = TRUE, !.mode = "compare", !.others = o,
                               !.scheme = s, !.sharex = sh[1], !.sharey = sh[2]] :
             o \in OtherBands, s \in SchemeInputs, sh \in ShareInputs}
    \cup {[PlotDefaults EXCEPT !.aslist = TRUE, !.others = o, !.mode = m,
                               !.not_scaled = n, !.k_labels = k] :
             o \in OtherBands, m \in ModeInputs, n \in BOOLEAN,
             k \in {NoList, List(ClosedPath)}}
    \cup {[PlotDefaults EXCEPT !.mode = m] : m \in ModeInputs}

InitBandPlot ==
    /\ band = FirstBand
    /\ dos = DosObject(Str_eV)
    /\ chg = ChgObject(1, Str_Angstrom)
    /\ call = NoCall
    /\ pre = Objects
    /\ gapUnit = NoStr
    /\ built = Objects
    /\ echg = NoEchg
    /\ conv = Idle
    /\ seen = NoSeen
    /\ plot = NoPlot

NextBandPlot == \E a \in PlotArgs : PlotCryBands(a)

SpecBandPlot == InitBandPlot /\ [][NextBandPlot]_vars

---------------------------------------------------------------------------
(* What the properties speak of *)

Elems(a) == {a.v[i] : i \in DOMAIN a.v}

Has(a) == a.kind # "absent"

\* The power of the factors that takes a value in Hartree-Bohr to the unit
\* named by the label u: 1 for eV-Angstrom (of a band or dos object) and
\* for Angstrom (of a charge density), 0 for a.u.
UnitPow(u) == IF Lower(u) \in {Str_ev, Str_angstrom} THEN 1 ELSE 0

\* the array a0 with every element multiplied by HE^d, and by BA^d
ScaledE(a0, d) == [a0 EXCEPT !.v = [i \in DOMAIN a0.v |-> [a0.v[i] EXCEPT !.e = @ + d]]]
ScaledL(a0, d) == [a0 EXCEPT !.v = [i \in DOMAIN a0.v |-> [a0.v[i] EXCEPT !.l = @ + d]]]

\* the targets each class converts to
Recognised(obj, u) ==
    IF obj = "chg" THEN Lower(u) \in {Str_angstrom, Str_au}
    ELSE Lower(u) \in {Str_ev, Str_au}

\* the last call was a _set_unit on the single object obj
ToggleOn(obj) == call.op = "_set_unit" /\ call.obj = obj

\* the object named obj, in a record of the three objects
Of(objs, obj) ==
    CASE obj = "band" -> objs.band [] obj = "dos" -> objs.dos [] obj = "chg" -> objs.chg

Single == {"band", "dos", "chg"}

---------------------------------------------------------------------------
(* C1 *)

\* powers from the unit the band object was built in, and from the unit
\* get_bandgap ran in, to the unit its label names now
BandPow == UnitPow(band.unit) - UnitPow(built.band.unit)
GapPow == UnitPow(band.unit) - UnitPow(gapUnit)
DosPow == UnitPow(dos.unit) - UnitPow(built.dos.unit)

\* C1: between any two calls, every unit-dependent field of the band object
\* is its built value carried to the unit the label names (energies by the
\* energy factor, lengths by the length factor), the cached gap, vbm, cbm and
\* gap_pos are in that unit too, and so are efermi and energy of the dos
\* object.
C1_LabelAndFieldsAgree ==
    /\ Lower(band.unit) \in {Str_ev, Str_au}
    /\ band.bands = ScaledE(built.band.bands, BandPow)
    /\ band.efermi = ScaledE(built.band.efermi, BandPow)
    /\ band.tick_pos = ScaledL(built.band.tick_pos, BandPow)
    /\ band.k_path = ScaledL(built.band.k_path, BandPow)
    /\ band.reciprocal_latt = ScaledL(built.band.reciprocal_latt, BandPow)
    /\ \A x \in Elems(band.gap) \cup Elems(band.vbm) \cup Elems(band.cbm) :
           x.e = GapPow /\ x.l = 0
    /\ \A x \in Elems(band.gap_pos) :
           /\ x.e = 0
           /\ x.l = BandPow \/ (x.m = 0 /\ x.l = GapPow)
    /\ Lower(dos.unit) \in {Str_ev, Str_au}
    /\ dos.efermi = ScaledE(built.dos.efermi, DosPow)
    /\ dos.energy = ScaledE(built.dos.energy, DosPow)

\* a band object with a cached gap computed in one unit and converted to the
\* other, which is not the unit it was built in, after a rejected target
C1_Witness ==
    /\ Has(band.gap)
    /\ \E x \in Elems(band.vbm) : x.m # 0
    /\ gapUnit # Lower(band.unit)
    /\ Lower(band.unit) # Lower(built.band.unit)
    /\ ToggleOn("band") /\ call.outcome = "ValueError"

---------------------------------------------------------------------------
(* C2 *)

\* C2: a _set_unit call on a band, dos or charge density object with a
\* target the class does not recognise raises, and leaves every field of
\* every object as it was before the call.
C2_UnknownUnitRejected ==
    \A obj \in Single :
        (ToggleOn(obj) /\ ~Recognised(obj, call.arg)) =>
            /\ call.outcome = "ValueError"
            /\ Objects = pre

\* "kelvin" was rejected by a band object that holds a cached gap
C2_Witness ==
    /\ ToggleOn("band") /\ call.arg = Str_kelvin
    /\ call.outcome = "ValueError"
    /\ Has(band.gap) /\ Has(band.gap_pos)

---------------------------------------------------------------------------
(* C3 *)

\* C3: a _set_unit call whose target equals the object's unit when both are
\* lower-cased changes no field, the spelling of unit included, and returns
\* the object.
C3_SameUnitNoOp ==
    \A obj \in Single :
        (ToggleOn(obj) /\ Lower(call.arg) = Lower(Of(pre, obj).unit)) =>
            /\ call.outcome = "ok"
            /\ call.ret = "self"
            /\ Objects = pre

\* the target 'ev' met a band object whose unit is spelled 'EV'
C3_Witness ==
    /\ ToggleOn("band") /\ call.arg = Str_ev
    /\ pre.band.unit = Str_EV
    /\ band.unit = Str_EV

---------------------------------------------------------------------------
(* C4 *)

\* the last call converted the object named obj
Converted(obj) ==
    /\ ToggleOn(obj) /\ call.outcome = "ok"
    /\ Lower(Of(pre, obj).unit) # Lower(Of(Objects, obj).unit)

\* the step is a _set_unit call on obj with the unit obj had before the last
\* call
BackTo(obj) ==
    /\ call'.op = "_set_unit" /\ call'.obj = obj
    /\ Lower(call'.arg) = Lower(Of(pre, obj).unit)

\* C4: when a call has converted an object and the next call converts it
\* back to the unit it had, every field but the label has the value it had
\* before the first call: bands, efermi, tick_pos, k_path, reciprocal_latt
\* and the cached gap, vbm, cbm, gap_pos of a band object; energy, efermi,
\* doss of a dos object; chgmap and spinmap of a charge density.
C4_RoundTrip ==
    [][/\ (Converted("band") /\ BackTo("band")) =>
            [band' EXCEPT !.unit = pre.band.unit] = pre.band
       /\ (Converted("dos") /\ BackTo("dos")) =>
            [dos' EXCEPT !.unit = pre.dos.unit] = pre.dos
       /\ (Converted("chg") /\ BackTo("chg")) =>
            [chg' EXCEPT !.unit = pre.chg.unit] = pre.chg]_vars

\* a band object with a cached gap that was converted away from the unit it
\* was built in and has just been converted back, its gap still the one
\* computed in that unit
C4_Witness ==
    /\ Converted("band")
    /\ Lower(band.unit) = Lower(built.band.unit)
    /\ Has(band.gap) /\ Has(pre.band.gap)
    /\ gapUnit = Lower(band.unit)
    /\ \E x \in Elems(band.gap) : x.m # 0

---------------------------------------------------------------------------
(* C5 *)

\* C5: a _set_unit call on the aggregate with a target both members
\* recognise completes, and leaves both members in the target unit.
C5_AggregateConverts ==
    (ToggleOn("banddos") /\ Recognised("band", call.arg)) =>
        /\ call.outcome = "ok"
        /\ Lower(band.unit) = Lower(call.arg)
        /\ Lower(dos.unit) = Lower(call.arg)

---------------------------------------------------------------------------
(* C6 *)

\* C6: after a _set_unit call on the aggregate that raised, both members
\* are as they were before the call.
C6_FailedAggregateUntouched ==
    (ToggleOn("banddos") /\ call.outcome # "ok") =>
        /\ band = pre.band
        /\ dos = pre.dos

\* a call on the instance with a recognised target raised, the members
\* being in different units, neither of them the target
C6_Witness ==
    /\ ToggleOn("banddos") /\ call.how = "instance"
    /\ call.outcome # "ok"
    /\ Recognised("band", call.arg)
    /\ Lower(band.unit) # Lower(dos.unit)
    /\ Lower(band.unit) # Lower(call.arg)

---------------------------------------------------------------------------
(* C7 *)

\* C7: a _set_unit call with a target its class recognises, on a band, dos
\* or charge density object or on the aggregate, returns the object it was
\* called on, whether it converts or not.
C7_ToggleReturnsSelf ==
    (call.op = "_set_unit"
       /\ Recognised(call.obj, call.arg)
       /\ call.how = "instance") =>
        call.ret = "self"

---------------------------------------------------------------------------
(* C8 *)

\* C8: after a converting _set_unit on a band object, gap, vbm and cbm are
\* their values before the call times the energy factor of the conversion
\* and gap_pos its value before the call times the length factor, when
\* get_bandgap had been called; when it had not, none of the four exists.
C8_CacheRescaled ==
    Converted("band") =>
        LET d == UnitPow(band.unit) - UnitPow(pre.band.unit)
        IN  IF Has(pre.band.gap)
            THEN /\ band.gap = ScaledE(pre.band.gap, d)
                 /\ band.vbm = ScaledE(pre.band.vbm, d)
                 /\ band.cbm = ScaledE(pre.band.cbm, d)
                 /\ band.gap_pos = ScaledL(pre.band.gap_pos, d)
            ELSE ~Has(band.gap) /\ ~Has(band.vbm) /\ ~Has(band.cbm)
                 /\ ~Has(band.gap_pos)

\* a conversion to a.u. of a band object with a non-zero cached gap
C8_Witness ==
    /\ Converted("band") /\ Lower(band.unit) = Str_au
    /\ Has(pre.band.gap)
    /\ \E x \in Elems(pre.band.gap) : x.m # 0
    /\ \E x \in Elems(pre.band.gap_pos) : x.m # 0

---------------------------------------------------------------------------
(* C9 *)

\* get_bandgap has just returned
GapReturned == call.op = "get_bandgap" /\ call.outcome = "ok"

Channels == 0..(band.spin - 1)

\* C9 as claimed: after get_bandgap, a channel whose valence band is above 0
\* at some k point has gap 0.
C9_RiseAboveZeroMeansNoGap ==
    GapReturned =>
        \A s \in Channels :
            (\E k \in 0..(band.bands.shape[2] - 1) :
                 Sign(At3(band.bands, call.idx[s + 1].nvb, k, s)) > 0)
            => band.gap.v[s + 1].m = 0

\* C9, amended: after get_bandgap, in every channel gap is 0 when the
\* rounded vbm is above 0 or the rounded cbm below 0 and cbm - vbm
\* otherwise, gap is never negative, and a valence band whose maximum
\* rounds to a value above 0 has gap 0.
C9_GapFromRoundedExtrema ==
    GapReturned =>
        \A s \in Channels :
            LET gap == band.gap.v[s + 1]
                vbm == band.vbm.v[s + 1]
                cbm == band.cbm.v[s + 1]
                top == MaxOf(Row(band.bands, call.idx[s + 1].nvb, s))
            IN  /\ (vbm.m > 0 \/ cbm.m < 0) => gap.m = 0
                /\ (vbm.m <= 0 /\ cbm.m >= 0) => gap.m = cbm.m - vbm.m
                /\ gap.m >= 0
                /\ Round6(top).m > 0 => gap.m = 0

\* a channel whose valence band is above 0 away from the first k point got
\* gap 0, in a unit the object was not built in
C9_Witness ==
    /\ GapReturned
    /\ Lower(band.unit) # Lower(built.band.unit)
    /\ \E s \in Channels :
           /\ band.vbm.v[s + 1].m > 0
           /\ band.cbm.v[s + 1].m > 0
           /\ band.gap.v[s + 1].m = 0

---------------------------------------------------------------------------
(* C10 *)

\* C10: after get_bandgap, in every channel that has a band above 0 at the
\* first k point, ncb is the lowest band index whose energy at the first k
\* point is above 0 (a band at exactly 0 there is passed over, whatever its
\* energy at the other k points) and nvb is ncb - 1.
C10_FirstBandAboveZero ==
    GapReturned =>
        \A s \in Channels :
            (\E n \in 0..(band.bands.shape[1] - 1) : At3(band.bands, n, 0, s).m > 0) =>
                LET ncb == call.idx[s + 1].ncb
                    nvb == call.idx[s + 1].nvb
                IN  /\ ncb \in 0..(band.bands.shape[1] - 1)
                    /\ At3(band.bands, ncb, 0, s).m > 0
                    /\ \A n \in 0..(ncb - 1) : At3(band.bands, n, 0, s).m <= 0
                    /\ nvb = ncb - 1

\* band 0 is at exactly 0 at the first k point and above 0 at the next, and
\* band 1 was taken as the conduction band
C10_Witness ==
    /\ GapReturned
    /\ \E s \in Channels :
           /\ At3(band.bands, 0, 0, s).m = 0
           /\ At3(band.bands, 0, 1, s).m > 0
           /\ call.idx[s + 1].ncb = 1

---------------------------------------------------------------------------
(* C11 *)

\* the row x of band energies has its largest, smallest value at k
IsMaxAt(row, k) == \A j \in DOMAIN row : row[j].m <= row[k].m
IsMinAt(row, k) == \A j \in DOMAIN row : row[j].m >= row[k].m

\* every energy of the row is m
AllEqual(row, m) == \A j \in DOMAIN row : row[j] = Float(m)

\* C11: after get_bandgap, in every channel vbm is the largest energy of
\* band nvb over the k points and cbm the smallest energy of band ncb, each
\* rounded to 6 decimals (in the unit the data were built in: a multiple of
\* 1e-6 no further than 5e-7 from the extremum); a valence band at -1.0 and a
\* conduction band at +2.0 at every k point give gap 3.0, vbm -1.0, cbm 2.0.
C11_RoundedExtrema ==
    GapReturned =>
        \A s \in Channels :
            LET vrow == Row(band.bands, call.idx[s + 1].nvb, s)
                crow == Row(band.bands, call.idx[s + 1].ncb, s)
                gap  == band.gap.v[s + 1]
                vbm  == band.vbm.v[s + 1]
                cbm  == band.cbm.v[s + 1]
            IN  /\ \E k \in DOMAIN vrow : IsMaxAt(vrow, k) /\ vbm = Round6(vrow[k])
                /\ \E k \in DOMAIN crow : IsMinAt(crow, k) /\ cbm = Round6(crow[k])
                /\ \A k \in DOMAIN vrow :
                       (IsMaxAt(vrow, k) /\ vrow[k].e = 0) =>
                           /\ vbm.m % Pow10(Shift) = 0
                           /\ 2 * Abs(vbm.m - vrow[k].m) <= Pow10(Shift)
                /\ \A k \in DOMAIN crow :
                       (IsMinAt(crow, k) /\ crow[k].e = 0) =>
                           /\ cbm.m % Pow10(Shift) = 0
                           /\ 2 * Abs(cbm.m - crow[k].m) <= Pow10(Shift)
                /\ (AllEqual(vrow, -One) /\ AllEqual(crow, 2 * One)) =>
                       /\ gap = Float(3 * One)
                       /\ vbm = Float(-One)
                       /\ cbm = Float(2 * One)

\* the flat bands of a closed-shell object gave gap 3.0, vbm -1.0, cbm 2.0
C11_Witness ==
    /\ GapReturned
    /\ band.spin = 1
    /\ AllEqual(Row(band.bands, call.idx[1].nvb, 0), -One)
    /\ band.gap = Scalar(Float(3 * One))
    /\ band.vbm = Scalar(Float(-One))
    /\ band.cbm = Scalar(Float(2 * One))

---------------------------------------------------------------------------
(* C12 *)

\* k is the lowest index at which the row has its largest, smallest value
FirstMaxAt(row, k) == IsMaxAt(row, k) /\ \A j \in 0..(k - 1) : ~IsMaxAt(row, j)
FirstMinAt(row, k) == IsMinAt(row, k) /\ \A j \in 0..(k - 1) : ~IsMinAt(row, j)

\* C12: after get_bandgap, gap_pos of every channel is the pair of k_path
\* coordinates of the first k point where band nvb has its maximum and of
\* the first k point where band ncb has its minimum.
C12_GapPosFirstOccurrence ==
    GapReturned =>
        \A s \in Channels :
            LET vrow == Row(band.bands, call.idx[s + 1].nvb, s)
                crow == Row(band.bands, call.idx[s + 1].ncb, s)
            IN  \E kv \in DOMAIN vrow, kc \in DOMAIN crow :
                    /\ FirstMaxAt(vrow, kv)
                    /\ FirstMinAt(crow, kc)
                    /\ band.gap_pos.v[2 * s + 1] = At1(band.k_path, kv)
                    /\ band.gap_pos.v[2 * s + 2] = At1(band.k_path, kc)

\* a valence band with its maximum at the second k point and a conduction
\* band with the same energy at every k point: gap_pos is (k_path[1],
\* k_path[0])
C12_Witness ==
    /\ GapReturned
    /\ \E s \in Channels :
           LET vrow == Row(band.bands, call.idx[s + 1].nvb, s)
               crow == Row(band.bands, call.idx[s + 1].ncb, s)
           IN  /\ vrow[0].m < vrow[1].m
               /\ \A k \in DOMAIN crow : crow[k] = crow[0]
               /\ band.gap_pos.v[2 * s + 1] = At1(band.k_path, 1)
               /\ band.gap_pos.v[2 * s + 2] = At1(band.k_path, 0)
               /\ At1(band.k_path, 1) # At1(band.k_path, 0)

---------------------------------------------------------------------------
(* C13 *)

\* channel s of the band object has a band above 0 at the first k point
HasCrossing(b, s) ==
    \E n \in 0..(b.bands.shape[1] - 1) : Sign(At3(b.bands, n, 0, s)) > 0

\* C13: a get_bandgap call on a band object one of whose channels has no
\* band above 0 at the first k point ends in an error.
C13_MissingCrossingRaises ==
    (call.op = "get_bandgap" /\ \E s \in Channels : ~HasCrossing(band, s)) =>
        call.outcome # "ok"

---------------------------------------------------------------------------
(* C14 *)

\* the value get_bandgap computes for channel s with the band indices it
\* used: gap, vbm, cbm, and the two k_path coordinates
ChannelValue(s) ==
    LET vrow == Row(band.bands, call.idx[s + 1].nvb, s)
        crow == Row(band.bands, call.idx[s + 1].ncb, s)
        vbm  == Round6(MaxOf(vrow))
        cbm  == Round6(MinOf(crow))
    IN  [gap |-> GapOf(vbm, cbm), vbm |-> vbm, cbm |-> cbm,
         kvbm |-> At1(band.k_path, ArgMax(vrow)),
         kcbm |-> At1(band.k_path, ArgMin(crow))]

\* C14: after get_bandgap, a band object with spin 1 holds gap, vbm and cbm
\* as scalars and gap_pos with 2 elements, all of channel 0; one with spin 2
\* holds gap, vbm, cbm with 2 elements, one per channel, and a 2*2 gap_pos;
\* the call returns the four as stored, and the property bandgap stores the
\* same and returns gap, the first of the four.
C14_ShapesBySpin ==
    ((call.op \in {"get_bandgap", "bandgap"}) /\ call.outcome = "ok") =>
        LET c0 == ChannelValue(0)
            c1 == ChannelValue(1)
        IN  /\ IF band.spin = 1
               THEN /\ band.gap = Scalar(c0.gap)
                    /\ band.vbm = Scalar(c0.vbm)
                    /\ band.cbm = Scalar(c0.cbm)
                    /\ band.gap_pos = Array(<<2>>, <<c0.kvbm, c0.kcbm>>)
               ELSE /\ band.gap = Array(<<2>>, <<c0.gap, c1.gap>>)
                    /\ band.vbm = Array(<<2>>, <<c0.vbm, c1.vbm>>)
                    /\ band.cbm = Array(<<2>>, <<c0.cbm, c1.cbm>>)
                    /\ band.gap_pos = Array(<<2, 2>>, <<c0.kvbm, c0.kcbm,
                                                        c1.kvbm, c1.kcbm>>)
            /\ call.op = "get_bandgap" =>
                   call.val = <<band.gap, band.vbm, band.cbm, band.gap_pos>>
            /\ call.op = "bandgap" => call.val = <<band.gap>>

\* the property bandgap of a closed-shell object returned a scalar above 0,
\* with a 2-element gap_pos stored
C14_Witness ==
    /\ call.op = "bandgap" /\ call.outcome = "ok"
    /\ band.spin = 1
    /\ Len(call.val) = 1
    /\ call.val[1].shape = <<>>
    /\ call.val[1].v[1].m > 0
    /\ band.gap_pos.shape = <<2>>

---------------------------------------------------------------------------
(* C19 *)

\* the band object was built without 3D coordinates: tick_pos3d and
\* k_path3d were left at None
No3D(b) == b.tick_pos3d = np_array(None) /\ b.k_path3d = np_array(None)

\* C19: a to_pmg call on a band object built without 3D coordinates ends in
\* an exception, and a to_pmg call that returns a band structure was made on
\* an object that has them.
C19_PmgNeeds3D ==
    call.op = "to_pmg" =>
        /\ No3D(built.band) => (call.outcome # "ok" /\ call.ret = "raise")
        /\ call.outcome = "ok" =>
               /\ ~No3D(band)
               /\ band.tick_pos3d.shape = <<band.n_tick, 3>>
               /\ call.ret = "BandStructureSymmLine"

\* to_pmg raised on an object built in a.u. without 3D coordinates, which
\* the call left in eV-Angstrom
C19_Witness ==
    /\ call.op = "to_pmg" /\ call.outcome = "IndexError"
    /\ No3D(band)
    /\ pre.band.unit = Str_au /\ band.unit = Str_eV

---------------------------------------------------------------------------
(* C15 *)

\* a channel whose lowest band is already above 0
AllEmpty == [n \in 0..(NBand - 1) |-> <<EBig, EBig>>]

\* the band object b with the energies of channel s replaced by chan
WithChannel(b, s, chan) ==
    LET spin == b.bands.shape[3]
        nk   == b.bands.shape[2]
    IN  [b EXCEPT !.bands.v =
            [i \in DOMAIN b.bands.v |->
                IF (i - 1) % spin = s
                THEN Float(chan[(i - 1) \div (spin * nk)]
                               [IF ((i - 1) \div spin) % nk = 0 THEN 1 ELSE 2])
                ELSE b.bands.v[i]]]

\* what a get_bandgap call on b reports for channel s
ChannelOutcome(b, s) ==
    LET r == get_bandgap(b)
    IN  IF r.outcome # "ok"
        THEN [outcome |-> r.outcome, gap |-> <<>>, vbm |-> <<>>, cbm |-> <<>>,
              gap_pos |-> <<>>]
        ELSE [outcome |-> "ok",
              gap |-> <<r.obj.gap.v[s + 1]>>,
              vbm |-> <<r.obj.vbm.v[s + 1]>>,
              cbm |-> <<r.obj.cbm.v[s + 1]>>,
              gap_pos |-> <<r.obj.gap_pos.v[2 * s + 1], r.obj.gap_pos.v[2 * s + 2]>>]

\* C15: for a band object with spin 2, as built, what get_bandgap reports
\* for a channel is the same whatever bands the other channel holds, among
\* those for which the call returns.
C15_ChannelsIndependent ==
    (band.spin = 2 /\ band.bands = built.band.bands) =>
        \A s \in {0, 1} : \A alt \in {Insulator, AllEmpty} :
            LET other == WithChannel(band, 1 - s, alt)
            IN  (ChannelOutcome(band, s).outcome = "ok"
                   /\ ChannelOutcome(other, s).outcome = "ok") =>
                    ChannelOutcome(other, s) = ChannelOutcome(band, s)

---------------------------------------------------------------------------
(* C16 *)

\* the operand f is not on the grid of the reference r: a corner further
\* than 1e-4 away, or a map of another shape
Inconsistent(r, f) ==
    \/ NormAbove(r.a, f.a) \/ NormAbove(r.b, f.b) \/ NormAbove(r.c, f.c)
    \/ f.map1.shape # r.map1.shape
    \/ f.map2.shape # r.map2.shape

\* C16: a from_ECHG call with an operand that is not on the grid of the
\* reference raises the inconsistent-grid Exception, and the parsed maps of
\* the reference and of every operand are as parsed.
C16_InconsistentGridRejected ==
    (call.op = "from_ECHG"
       /\ \E i \in 2..Len(echg.args) : Inconsistent(echg.args[1], echg.args[i])) =>
        /\ call.outcome = "Exception"
        /\ echg.maps = echg.args

---------------------------------------------------------------------------
(* C17 *)

\* the map of the reference minus the maps of the files after it
RECURSIVE MinusAll(_, _, _)
MinusAll(m, files, i) ==
    IF i > Len(files) THEN m ELSE MinusAll(ArrayMinus(m, files[i].map1), files, i + 1)

\* C17: a from_ECHG call with one file, or with files that are all on the
\* grid of the first, returns a ChargeDensity whose chgmap is the map of the
\* first file minus the maps of the others, with grid vectors [a-b, c-b].
C17_EchgConstructs ==
    (call.op = "from_ECHG"
       /\ \A i \in 2..Len(echg.args) : ~Inconsistent(echg.args[1], echg.args[i])) =>
        /\ call.outcome = "ok"
        /\ Len(echg.obj) = 1
        /\ echg.obj[1].chgmap = MinusAll(echg.args[1].map1, echg.args, 2)
        /\ echg.obj[1].gridv = <<ArrayMinus(echg.args[1].a, echg.args[1].b),
                                 ArrayMinus(echg.args[1].c, echg.args[1].b)>>

---------------------------------------------------------------------------
(* C18 *)

\* the value of the attribute named, of a band object
Attr(b, name) ==
    CASE name = "bands" -> b.bands [] name = "efermi" -> b.efermi
      [] name = "tick_pos" -> b.tick_pos [] name = "k_path" -> b.k_path

\* the position of a name in the order of assignment
Position(name) == CHOOSE i \in DOMAIN BandAssigned : BandAssigned[i] = name

\* the reader read while a converting call had assigned the label and not
\* yet k_path
ReadInside ==
    /\ seen.pc > Position("unit")
    /\ seen.pc <= Position("k_path")

\* C18: what a reader sees of a band object while a converting _set_unit
\* has assigned unit and not yet k_path: unit names the target, which is not
\* the unit the call started from, and each of bands, efermi, tick_pos and
\* k_path that the call has not reached yet holds the value it had when the
\* call started; k_path always does.  A call that runs to its end leaves
\* the object as the call made in one step does.
C18_ReaderSeesMixedUnits ==
    /\ ReadInside =>
           LET o  == seen.obj[1]
               o0 == seen.start[1]
           IN  /\ Lower(o.unit) = seen.target
               /\ Lower(o0.unit) # seen.target
               /\ \A name \in {"bands", "efermi", "tick_pos", "k_path"} :
                      IF seen.pc <= Position(name)
                      THEN Attr(o, name) = Attr(o0, name)
                      ELSE Attr(o, name) # Attr(o0, name)
               /\ o.k_path = o0.k_path
    /\ (call.how = "steps" /\ call.outcome = "ok") =>
           band = Band_set_unit(pre.band, call.arg).obj

\* the reader saw unit 'eV' on an object whose bands, efermi, tick_pos and
\* k_path were all still in a.u., and the call has since returned
C18_Witness ==
    /\ ReadInside
    /\ seen.obj[1].unit = Str_eV
    /\ seen.start[1].unit = Str_au
    /\ seen.obj[1].bands = seen.start[1].bands
    /\ seen.obj[1].efermi = seen.start[1].efermi
    /\ seen.obj[1].tick_pos = seen.start[1].tick_pos
    /\ seen.obj[1].k_path = seen.start[1].k_path
    /\ call.how = "steps" /\ call.outcome = "ok"
    /\ band.bands # seen.obj[1].bands

---------------------------------------------------------------------------
(* C20 *)

\* C20: after a get_bandgap call that raised, the band object is as it was
\* before the call: gap, vbm, cbm and gap_pos have the values and shapes
\* they had, and do not exist if they did not.
C20_FailedGapLeavesBand ==
    (call.op = "get_bandgap" /\ call.outcome # "ok") =>
        /\ band.gap = pre.band.gap
        /\ band.vbm = pre.band.vbm
        /\ band.cbm = pre.band.cbm
        /\ band.gap_pos = pre.band.gap_pos

---------------------------------------------------------------------------
(* C21 *)

\* the step is a plotting call with the function and the arguments of the
\* last call
SamePlotAgain ==
    /\ call.op \in {"plot_cry_es", "plot_cry_doss"}
    /\ call.outcome = "ok"
    /\ call'.op = call.op
    /\ plot'.args = plot.args

\* C21: a dos object built with no negative doss value has none after any
\* sequence of _set_unit, plot_cry_es and plot_cry_doss calls, in either
\* spin channel, and a plotting call repeated with the same arguments leaves
\* the stored doss and the curves drawn as the first call left them.
C21_DossStaysNonNegative ==
    [][/\ \A x \in Elems(dos'.doss) : x.m >= 0
       /\ SamePlotAgain => (dos'.doss = dos.doss /\ plot'.fig = plot.fig)]_vars

---------------------------------------------------------------------------
(* C22 *)

\* C22: a converting _set_unit call on a dos object multiplies energy and
\* efermi by the Hartree-to-eV factor when the target is eV and divides them
\* by it when the target is a.u., and does the opposite to doss, so that the
\* product of a doss value and an energy interval is what it was; n_proj,
\* n_energy and spin are unchanged.
C22_DosScaledOppositely ==
    Converted("dos") =>
        LET d == IF Lower(call.arg) = Str_ev THEN 1 ELSE -1
        IN  /\ dos.energy = ScaledE(pre.dos.energy, d)
            /\ dos.efermi = ScaledE(pre.dos.efermi, d)
            /\ dos.doss = ScaledE(pre.dos.doss, -d)
            /\ \A i \in DOMAIN dos.doss.v, j \in DOMAIN dos.energy.v :
                   /\ dos.doss.v[i].m = pre.dos.doss.v[i].m
                   /\ dos.energy.v[j].m = pre.dos.energy.v[j].m
                   /\ dos.doss.v[i].e + dos.energy.v[j].e
                          = pre.dos.doss.v[i].e + pre.dos.energy.v[j].e
            /\ dos.n_proj = pre.dos.n_proj
            /\ dos.n_energy = pre.dos.n_energy
            /\ dos.spin = pre.dos.spin

\* an open-shell dos object built in a.u. was converted to eV
C22_Witness ==
    /\ Converted("dos")
    /\ call.arg = Str_eV
    /\ built.dos.unit = Str_au
    /\ dos.spin = 2
    /\ \E x \in Elems(dos.doss) : x.m # 0 /\ x.e = -1
    /\ \E x \in Elems(dos.energy) : x.m # 0 /\ x.e = 1

---------------------------------------------------------------------------
(* C23 *)

\* C23: a converting _set_unit call on a charge density multiplies chgmap,
\* and spinmap when it is not None, by the cube of the Bohr-to-Angstrom
\* factor when the target is a.u. and divides them by that cube when the
\* target is Angstrom; a spinmap that is None stays None; gridv and spin
\* are unchanged.
C23_DensityScaledByCube ==
    Converted("chg") =>
        LET d == IF Lower(call.arg) = Str_au THEN 3 ELSE -3
        IN  /\ chg.chgmap = ScaledL(pre.chg.chgmap, d)
            /\ IF pre.chg.spinmap = None THEN chg.spinmap = None
               ELSE chg.spinmap = ScaledL(pre.chg.spinmap, d)
            /\ chg.gridv = pre.chg.gridv
            /\ chg.spin = pre.chg.spin

\* an open-shell density built in a.u. was converted to Angstrom
C23_Witness ==
    /\ Converted("chg")
    /\ call.arg = Str_angstrom
    /\ built.chg.unit = Str_au
    /\ chg.unit = Str_Angstrom
    /\ chg.spinmap # None
    /\ \E x \in Elems(chg.spinmap) : x.m < 0 /\ x.l = -3
    /\ \E x \in Elems(chg.chgmap) : x.m > 0 /\ x.l = -3

---------------------------------------------------------------------------
(* C24 *)

\* a range argument as the documentation asks for it: None, or a list of
\* exactly two elements of the types given
WellFormedRange(range, types) ==
    \/ range.kind = "None"
    \/ /\ range.kind = "list"
       /\ Len(range.v) = 2
       /\ \A i \in DOMAIN range.v : range.v[i].type \in types

\* C24: a plot_cry_bands call whose energy_range, or k_range, is neither
\* None nor a list of exactly two elements of the right type (a list of no
\* or one element included) raises ValueError in the argument checks: no
\* figure has been created.
C24_RangesChecked ==
    (/\ call.op = "plot_cry_bands"
     /\ \/ ~WellFormedRange(plot.args.energy_range, {"int", "float"})
        \/ ~WellFormedRange(plot.args.k_range, {"str"})) =>
        /\ call.outcome = "ValueError"
        /\ ~plot.fig.figure

---------------------------------------------------------------------------
(* C25 *)

\* C25: after a converting _set_unit call on a band object, the legacy
\* attributes agree with the attributes they were copied from: tick_position
\* equals tick_pos and k_point_plot equals k_path, element for element.
C25_LegacyAttributesFollow ==
    Converted("band") =>
        /\ band.tick_position = band.tick_pos
        /\ band.k_point_plot = band.k_path

---------------------------------------------------------------------------
(* C26 *)

\* C26: when get_bandgap returns normally, the band indices it used for
\* every spin channel satisfy 0 <= nvb = ncb - 1 < ncb < n_bands; the
\* valence band of a channel whose lowest band is above 0 is not the
\* highest band.
C26_BandIndicesInRange ==
    (call.op = "get_bandgap" /\ call.outcome = "ok") =>
        \A s \in DOMAIN call.idx :
            /\ 0 <= call.idx[s].nvb
            /\ call.idx[s].nvb = call.idx[s].ncb - 1
            /\ call.idx[s].ncb < band.bands.shape[1]

---------------------------------------------------------------------------
(* C27 *)

\* the step is an accepted _set_unit call on the band object, right after a
\* get_bandgap call that returned
GapThenUnit ==
    /\ call.op = "get_bandgap" /\ call.outcome = "ok"
    /\ call'.op = "_set_unit" /\ call'.obj = "band" /\ call'.outcome = "ok"

\* the two calls in the other order, on the object the get_bandgap call
\* started from
UnitThenGap == get_bandgap(Band_set_unit(pre.band, call'.arg).obj)

\* two arrays hold the same numbers (0 is 0 whatever factors it carries)
SameNumbers(a, b) ==
    /\ a.shape = b.shape
    /\ \A i \in DOMAIN a.v : a.v[i] = b.v[i] \/ (a.v[i].m = 0 /\ b.v[i].m = 0)

\* x, rounded to Decimals decimals, is within n units of the last of them
\* of y, which is a number of Decimals decimals
Within(x, y, n) == Abs(Round6(x).m - y.m) <= n * Pow10(Shift)
AllWithin(a, b, n) ==
    /\ a.shape = b.shape
    /\ \A i \in DOMAIN a.v : Within(a.v[i], b.v[i], n)

\* half a unit of the last decimal before the conversion is 13.6 units
\* after a conversion to eV and 0.02 after one to a.u.; half a unit is added
\* by each of the two roundings compared
RoundingTolerance(unit) == IF Lower(unit) = Str_ev THEN 14 ELSE 1

---------------------------------------------------------------------------
(* C28 *)

\* the call made last was plot_cry_bands, which drew the 'single' or the
\* 'multi' mode and returned
SingleOrMultiReturned ==
    /\ call.op = "plot_cry_bands" /\ call.outcome = "ok"
    /\ ModeUsed(plot.args.bands, plot.args.mode) \in {modes[1], modes[2]}

\* C28: after plot_cry_bands in the 'single' or 'multi' mode every band
\* object is as it was given, and the elements of its tick_pos, the last
\* among them, are values of its k_path.
C28_BandObjectsUnchanged ==
    SingleOrMultiReturned =>
        \A i \in DOMAIN plot.objs :
            /\ plot.objs[i] = BandList(plot.args.bands)[i]
            /\ plot.objs[i].tick_pos.v[Len(plot.objs[i].tick_pos.v)]
                   \in Elems(plot.objs[i].k_path)

---------------------------------------------------------------------------
(* C29 *)

\* the call made last was plot_cry_bands with a list k_labels, and went as
\* far as building path_dict
LabelsRenamed ==
    /\ call.op = "plot_cry_bands"
    /\ plot.args.k_labels.kind = "list"
    /\ Len(plot.fig.keys) = Len(plot.args.k_labels.v)
    /\ Len(plot.fig.keys) > 0

\* C29: the keys the renaming pass makes of k_labels are pairwise distinct,
\* path_dict has one entry for every tick, and the first occurrence of a
\* label in k_labels keeps its name.
C29_KeysDistinct ==
    LabelsRenamed =>
        /\ \A p, q \in DOMAIN plot.fig.keys :
               p # q => plot.fig.keys[p] # plot.fig.keys[q]
        /\ Cardinality(DOMAIN plot.fig.path_dict) = Len(plot.objs[1].tick_pos.v)
        /\ \A p \in DOMAIN plot.fig.keys :
               (\A q \in 1..(p - 1) : plot.args.k_labels.v[q] # plot.args.k_labels.v[p])
                   => plot.fig.keys[p] = plot.args.k_labels.v[p]

---------------------------------------------------------------------------
(* C30 *)

\* the call made last was plot_cry_bands in the 'compare' mode, of a list of
\* band objects, with the scheme None or two numbers, and no argument was
\* rejected by an error check
CompareCalled ==
    /\ call.op = "plot_cry_bands"
    /\ ModeUsed(plot.args.bands, plot.args.mode) = modes[3]
    /\ IsList(plot.args.bands)
    /\ ArgumentsOk(plot.args.bands, plot.args.k_labels, plot.args.energy_range,
                   plot.args.k_range, plot.args.mode)
    /\ ShareOk(plot.args.sharex, plot.args.sharey)
    /\ plot.args.energy_range.kind = "None" /\ plot.args.k_range.kind = "None"
    /\ \/ plot.args.scheme.kind = "None"
       \/ plot.args.scheme.kind \in {"tuple", "list"} /\ Len(plot.args.scheme.v) = 2

\* C30: the 'compare' mode returns having drawn every band object of the
\* list once, each in a subplot of its own, and with sharey False the y
\* limits of a subplot are the least and the greatest energy of the object
\* drawn in it.
C30_EveryBandDrawnOnce ==
    CompareCalled =>
        /\ call.outcome = "ok"
        /\ Len(plot.fig.subplots) = Len(plot.objs)
        /\ \A i \in DOMAIN plot.objs :
               \E c \in DOMAIN plot.fig.subplots : plot.fig.subplots[c].index = i - 1
        /\ \A c, d \in DOMAIN plot.fig.subplots :
               c # d => <<plot.fig.subplots[c].row, plot.fig.subplots[c].col>>
                            # <<plot.fig.subplots[d].row, plot.fig.subplots[d].col>>
        /\ plot.args.sharey = "False" =>
               \A c \in DOMAIN plot.fig.subplots :
                   plot.fig.subplots[c].ylim =
                       <<amin(plot.objs[plot.fig.subplots[c].index + 1].bands),
                         amax(plot.objs[plot.fig.subplots[c].index + 1].bands)>>

====
